---- MODULE Spec2Model ----
(***************************************************************************)
(* Model of the MATLAB language server's symbol index                      *)
(* (src/src/utils/symbol_table.py) and of its line-oriented structural     *)
(* extractor (src/src/parser/matlab_parser.py).                            *)
(*                                                                         *)
(* Strings that the code concatenates or prefix-tests (file URIs, scope    *)
(* names, symbol names, index keys) are sequences of one-character         *)
(* strings, so that key construction and startswith are computed as the    *)
(* code computes them.  Python's None is the empty sequence where the code *)
(* only tests truthiness (`x if x else ...`, `if uri and ...`).            *)
(***************************************************************************)
EXTENDS Integers, Sequences, FiniteSets, Bags, TLC

VARIABLES
  symbols,         \* SymbolTable._symbols: dict key -> list of Symbol, in insertion order
  file_hashes,     \* SymbolTable._file_hashes: dict uri -> digest
  uri_to_symbols,  \* SymbolTable._uri_to_symbols: dict uri -> list of Symbol
  lastOp,          \* the latest call on the index and how it ended
  text,            \* parse_content: the lines read so far, as indexes into Lines
  nesting_level,   \* MatlabParser._nesting_level
  current_function,\* MatlabParser._current_function: position in functions, 0 for None
  current_class,   \* MatlabParser._current_class: position in classes, 0 for None
  function_stack,  \* MatlabParser._function_stack: positions in functions
  class_stack,     \* MatlabParser._class_stack: positions in classes
  functions,       \* parse_content: list of FunctionInfo
  variables,       \* parse_content: list of VariableInfo
  classes,         \* parse_content: list of ClassInfo
  comments,        \* parse_content: list of CommentInfo
  function_tree,   \* parse_content: dict parent name -> list of child names
  run,             \* the update_from_parse_result call in progress, statement by statement
  seen,            \* what a reader of the file under update got from its latest queries
  doc,             \* parse_content: the raw content and its copy without block comments
  earlier,         \* an extraction this parser instance finished before: its text and result
  held,            \* the list a caller got from its latest query on the index,
                   \* and what it had inserted before
  cache,           \* CacheManager._cache: dict key -> CacheEntry
  stats,           \* CacheManager._stats
  now,             \* time.time()
  cacheOp,         \* the latest call on the cache and what it returned
  tally,           \* the calls and removals the cache has seen, counted from outside
  capacity,        \* LRUCache.capacity
  lru_cache,       \* LRUCache._cache: dict key -> value
  lru_order,       \* LRUCache._order: the keys, least recently used first
  lruOp,           \* the latest call on the LRU cache, what it returned, and when
                   \* each key was last put or found
  documents,       \* DocumentStore._documents: dict uri -> Document
  storeOp,         \* the latest call on the document store, what it returned, and
                   \* the updates made for each uri since it was added
  task,            \* _trigger_analysis_with_debounce._task: the task created last
  sleeping,        \* the debounce tasks that are scheduled and not cancelled
  published,       \* the files whose diagnostics were published after their latest change
  syncOp,          \* the latest document event handled
  outline          \* provide_document_symbols: the call in progress and what it built

indexVars == <<symbols, file_hashes, uri_to_symbols, lastOp>>

parserVars == <<text, nesting_level, current_function, current_class,
                function_stack, class_stack, functions, variables, classes,
                comments, function_tree>>

stepVars == <<run, seen>>

cacheVars == <<cache, stats, now, cacheOp, tally>>

lruVars == <<capacity, lru_cache, lru_order, lruOp>>

storeVars == <<documents, storeOp>>

syncVars == <<task, sleeping, published, syncOp>>

\* the LRU cache, the document store, the document events and the outline
restVars == <<lruVars, storeVars, syncVars, outline>>

\* what the index, the extractor of one text and the stepwise update leave alone
moreVars == <<doc, earlier, held, cacheVars, restVars>>

vars == <<symbols, file_hashes, uri_to_symbols, lastOp, text, nesting_level,
          current_function, current_class, function_stack, class_stack,
          functions, variables, classes, comments, function_tree, run, seen,
          doc, earlier, held, cache, stats, now, cacheOp, tally, capacity,
          lru_cache, lru_order, lruOp, documents, storeOp, task, sleeping,
          published, syncOp, outline>>

-----------------------------------------------------------------------------
(* Bounds and input alphabets *)

\* Number of distinct digests; there is one more content than digests, so two
\* contents share a digest.
NumDigests == 2

\* Longest text, in lines, that the extractor is run on.
MaxLines == 4

Contents == 0 .. NumDigests

None == <<>>

Colon == <<":">>

Global == <<"g", "l", "o", "b", "a", "l">>

\* File ids: opaque strings.  UriUV starts with UriU followed by ":".
UriU == <<"u">>
UriUV == <<"u", ":", "v">>
UriW == <<"w">>

Uris == {UriU, UriUV, UriW}

KIND_FUNCTION == "function"
KIND_VARIABLE == "variable"
KIND_CLASS == "class"
KIND_PROPERTY == "property"
KIND_METHOD == "method"

Kinds == {KIND_FUNCTION, KIND_VARIABLE, KIND_CLASS, KIND_PROPERTY, KIND_METHOD}

-----------------------------------------------------------------------------
(* Python dict helpers *)

EmptyDict == [k \in {} |-> None]

SetKey(d, k, v) == [x \in (DOMAIN d) \cup {k} |-> IF x = k THEN v ELSE d[x]]

DelKey(d, k) == [x \in (DOMAIN d) \ {k} |-> d[x]]

\* str.startswith
StartsWith(s, p) == Len(p) =< Len(s) /\ SubSeq(s, 1, Len(p)) = p

\* str.lower, on the characters the inputs use
LowerChar(ch) ==
  CASE ch = "C" -> "c"
    [] ch = "D" -> "d"
    [] ch = "F" -> "f"
    [] OTHER -> ch

Lower(s) == [i \in 1 .. Len(s) |-> LowerChar(s[i])]

\* the `in` operator on strings: q is a substring of s
Contains(q, s) ==
  \E i \in 0 .. (Len(s) - Len(q)) : SubSeq(s, i + 1, i + Len(q)) = q

RECURSIVE Join(_, _)
\* sep.join(parts)
Join(parts, sep) ==
  IF parts = <<>> THEN <<>>
  ELSE IF Len(parts) = 1 THEN Head(parts)
  ELSE Head(parts) \o sep \o Join(Tail(parts), sep)

-----------------------------------------------------------------------------
(* Extraction results handed to the index (src/src/parser/models.py) *)

FunctionInfo(name, line, column, ins, outs, nested, parent) ==
  [name |-> name, line |-> line, column |-> column, input_args |-> ins,
   output_args |-> outs, is_nested |-> nested, parent_function |-> parent,
   parent_class |-> None, docstring |-> None]

ClassInfo(name, line, column, props, methods) ==
  [name |-> name, line |-> line, column |-> column, properties |-> props,
   methods |-> methods, docstring |-> None]

VariableInfo(name, line, column, glob, pers) ==
  [name |-> name, line |-> line, column |-> column, is_global |-> glob,
   is_persistent |-> pers]

ParseResult(fs, vs, cs) == [functions |-> fs, variables |-> vs, classes |-> cs]

\* no function, class or variable at all
ResultEmpty == ParseResult(<<>>, <<>>, <<>>)

\* function y = f(x) with a nested function g(); no class
ResultFunctions ==
  ParseResult(
    << FunctionInfo(<<"f">>, 1, 14, << <<"x">> >>, << <<"y">> >>, FALSE, None),
       FunctionInfo(<<"g">>, 2, 10, <<>>, <<>>, TRUE, <<"f">>) >>,
    <<>>, <<>>)

\* a function, a top-level variable and two classes: C with a property and
\* a method [a, b] = m(o), D with a property
ResultClasses ==
  ParseResult(
    << FunctionInfo(<<"F">>, 9, 10, <<>>, <<>>, FALSE, None) >>,
    << VariableInfo(<<"x">>, 8, 1, FALSE, FALSE) >>,
    << ClassInfo(<<"C">>, 1, 10, << <<"p">> >>,
         << FunctionInfo(<<"m">>, 3, 10, << <<"o">> >>, << <<"a">>, <<"b">> >>,
                         FALSE, None) >>),
       ClassInfo(<<"D">>, 5, 10, << <<"q">> >>, <<>>) >>)

ParseResults == {ResultEmpty, ResultFunctions, ResultClasses}

\* search strings for search_symbols; the empty string matches every name
Queries == {<<>>, <<"f">>, <<"C">>, <<"p">>}

-----------------------------------------------------------------------------
(* SymbolTable (src/src/utils/symbol_table.py) *)

Symbol(name, kind, uri, line, column, detail, documentation, is_global, scope) ==
  [name |-> name, kind |-> kind, uri |-> uri, line |-> line, column |-> column,
   detail |-> detail, documentation |-> documentation, is_global |-> is_global,
   scope |-> scope]

\* the three dicts of one SymbolTable instance
Table == [symbols |-> symbols, file_hashes |-> file_hashes,
          uri_to_symbols |-> uri_to_symbols]

EmptyTable == [symbols |-> <<>>, file_hashes |-> EmptyDict,
               uri_to_symbols |-> EmptyDict]

\* f"{uri}:{scope}:{name}"
GetSymbolKey(name, uri, scope) == uri \o Colon \o scope \o Colon \o name

\* hashlib.md5(content).hexdigest(): a digest out of a finite set, so distinct
\* contents can share one (contents 0 and NumDigests do)
HashContent(content) == content % NumDigests

\* position of key in the dict T.symbols, 0 when absent
KeyIndex(syms, key) ==
  IF \E i \in 1 .. Len(syms) : syms[i].key = key
  THEN CHOOSE i \in 1 .. Len(syms) : syms[i].key = key
  ELSE 0

AddSymbol(T, s) ==
  LET key == GetSymbolKey(s.name, s.uri, s.scope)
      i == KeyIndex(T.symbols, key)
  IN [T EXCEPT
        !.symbols =
          IF i = 0 THEN Append(@, [key |-> key, syms |-> <<s>>])
          ELSE [@ EXCEPT ![i].syms = Append(@, s)],
        !.uri_to_symbols =
          IF s.uri \in DOMAIN @ THEN [@ EXCEPT ![s.uri] = Append(@, s)]
          ELSE SetKey(@, s.uri, <<s>>)]

RECURSIVE AddSymbols(_, _)
\* one add_symbol call per element, in order
AddSymbols(T, ss) ==
  IF ss = <<>> THEN T ELSE AddSymbols(AddSymbol(T, Head(ss)), Tail(ss))

\* a removal that leaves the name index alone
KeyOutsideUri_KeepAll(uri, entry) == TRUE

KeyOutsideUri(uri, entry) == ~StartsWith(entry.key, uri \o Colon)

\* a removal that drops the hash and the name index entries but keeps the
\* file's list
RemoveSymbolsByUri_KeepList(T, uri) ==
  IF uri \notin DOMAIN T.uri_to_symbols THEN T
  ELSE [symbols |-> SelectSeq(T.symbols, LAMBDA e : KeyOutsideUri(uri, e)),
        uri_to_symbols |-> T.uri_to_symbols,
        file_hashes |-> DelKey(T.file_hashes, uri)]

RemoveSymbolsByUri(T, uri) ==
  IF uri \notin DOMAIN T.uri_to_symbols THEN T
  ELSE [symbols |-> SelectSeq(T.symbols, LAMBDA e : KeyOutsideUri(uri, e)),
        uri_to_symbols |-> DelKey(T.uri_to_symbols, uri),
        file_hashes |-> DelKey(T.file_hashes, uri)]

\* the count remove_symbols_by_uri returns
RemoveCount(T, uri) ==
  IF uri \notin DOMAIN T.uri_to_symbols THEN 0 ELSE Len(T.uri_to_symbols[uri])

GetSymbolsByUri(T, uri) ==
  IF uri \in DOMAIN T.uri_to_symbols THEN T.uri_to_symbols[uri] ELSE <<>>

RECURSIVE EntrySymbols(_)
\* the lists of the name index, one after the other in dict order
EntrySymbols(syms) ==
  IF syms = <<>> THEN <<>> ELSE Head(syms).syms \o EntrySymbols(Tail(syms))

GetAllSymbols(T) == EntrySymbols(T.symbols)

\* a search that compares the names as they are written
SearchMatch_CaseSensitive(s, query, uri, kind) ==
  /\ ~(uri # None /\ s.uri # uri)
  /\ ~(kind # "" /\ s.kind # kind)
  /\ Contains(query, s.name)

\* uri = None and kind = "" stand for the omitted filters
SearchMatch(s, query, uri, kind) ==
  /\ ~(uri # None /\ s.uri # uri)
  /\ ~(kind # "" /\ s.kind # kind)
  /\ Contains(Lower(query), Lower(s.name))

SearchSymbols(T, query, uri, kind) ==
  SelectSeq(EntrySymbols(T.symbols), LAMBDA s : SearchMatch(s, query, uri, kind))

CommaSpace == <<",", " ">>

\* detail of a function symbol: the output list is shown only when it has
\* more than one element
FunctionDetail(func) ==
  LET base == <<"function ">> \o func.name
      withIn == IF func.input_args # <<>>
                THEN base \o <<"(">> \o Join(func.input_args, CommaSpace) \o <<")">>
                ELSE base
  IN IF func.output_args # <<>> /\ Len(func.output_args) > 1
     THEN <<"[">> \o Join(func.output_args, CommaSpace) \o <<"] = ">> \o withIn
     ELSE withIn

\* detail of a method symbol: the output list is shown whenever it is not empty
MethodDetail(method) ==
  LET base == <<"function ">> \o method.name
      withIn == IF method.input_args # <<>>
                THEN base \o <<"(">> \o Join(method.input_args, CommaSpace) \o <<")">>
                ELSE base
  IN IF method.output_args # <<>>
     THEN <<"[">> \o Join(method.output_args, CommaSpace) \o <<"] = ">> \o withIn
     ELSE withIn

\* function symbols that ignore nesting
FunctionSymbol_AllGlobal(uri, func) ==
  Symbol(func.name, KIND_FUNCTION, uri, func.line, func.column,
         FunctionDetail(func), func.docstring, TRUE, Global)

FunctionSymbol(uri, func) ==
  Symbol(func.name, KIND_FUNCTION, uri, func.line, func.column,
         FunctionDetail(func), func.docstring, ~func.is_nested,
         IF func.parent_function # None THEN func.parent_function ELSE Global)

ClassSymbol(uri, cls) ==
  Symbol(cls.name, KIND_CLASS, uri, cls.line, cls.column,
         <<"class ">> \o cls.name, cls.docstring, TRUE, Global)

MethodSymbol(uri, cls, method) ==
  Symbol(method.name, KIND_METHOD, uri, method.line, method.column,
         MethodDetail(method), method.docstring, FALSE, cls.name)

PropertySymbol(uri, cls, prop) ==
  Symbol(prop, KIND_PROPERTY, uri, cls.line + 1, 1,
         <<"property ">> \o prop, None, FALSE, cls.name)

\* the add_symbol calls of the loop over parse_result.functions
FunctionSymbols(uri, pr) ==
  [i \in 1 .. Len(pr.functions) |-> FunctionSymbol(uri, pr.functions[i])]

RECURSIVE ClassSymbols(_, _)
\* the add_symbol calls of the loop over parse_result.classes: each class,
\* followed by its methods
ClassSymbols(uri, clss) ==
  IF clss = <<>> THEN <<>>
  ELSE LET cls == Head(clss)
       IN <<ClassSymbol(uri, cls)>>
          \o [j \in 1 .. Len(cls.methods) |-> MethodSymbol(uri, cls, cls.methods[j])]
          \o ClassSymbols(uri, Tail(clss))

\* the add_symbol calls of the loop over cls.properties, which runs once, after
\* the loop over the classes, on the class that loop left in cls
PropertySymbols(uri, cls) ==
  [i \in 1 .. Len(cls.properties) |-> PropertySymbol(uri, cls, cls.properties[i])]

\* every add_symbol call of one update, in call order; the calls stop where
\* the update raises
InsertCalls(uri, pr) ==
  FunctionSymbols(uri, pr) \o ClassSymbols(uri, pr.classes)
    \o (IF pr.classes = <<>> THEN <<>>
        ELSE PropertySymbols(uri, pr.classes[Len(pr.classes)]))

\* reading cls after a loop over no classes: UnboundLocalError
UpdateRaises(pr) == pr.classes = <<>>

\* the update without its change check
HashUnchanged_Never(T, uri, content) == FALSE

HashUnchanged(T, uri, content) ==
  uri \in DOMAIN T.file_hashes /\ T.file_hashes[uri] = HashContent(content)

\* update_from_parse_result: the table it leaves and how it ends
UpdateFromParseResult(T, uri, content, pr) ==
  IF HashUnchanged(T, uri, content)
  THEN [table |-> T, outcome |-> "skipped"]
  ELSE LET removed == RemoveSymbolsByUri(T, uri)
           hashed == [removed EXCEPT
                        !.file_hashes = SetKey(@, uri, HashContent(content))]
       IN [table |-> AddSymbols(hashed, InsertCalls(uri, pr)),
           outcome |-> IF UpdateRaises(pr) THEN "raised" ELSE "updated"]

-----------------------------------------------------------------------------
(* The index as a state machine: one action per mutating call *)

\* a call on the index: its arguments, how it ended ("skipped", "updated",
\* "raised" for an upsert, "returned" for a removal) and the count that
\* remove_symbols_by_uri returned in it
Call(op, uri, content, pr, outcome, removed) ==
  [op |-> op, uri |-> uri, content |-> content, result |-> pr,
   outcome |-> outcome, removed |-> removed]

IndexInit ==
  /\ symbols = <<>>
  /\ file_hashes = EmptyDict
  /\ uri_to_symbols = EmptyDict
  /\ lastOp = Call("none", None, 0, ResultEmpty, "none", 0)

SetTable(T) ==
  /\ symbols' = T.symbols
  /\ file_hashes' = T.file_hashes
  /\ uri_to_symbols' = T.uri_to_symbols

\* UpsertFile(uri, content, result).  A skipped call returns before it reads
\* the result or calls remove_symbols_by_uri, so lastOp records neither.
UpsertFile(uri, content, pr) ==
  \E r \in {UpdateFromParseResult(Table, uri, content, pr)} :
    /\ SetTable(r.table)
    /\ lastOp' = IF r.outcome = "skipped"
                 THEN Call("upsert", uri, content, ResultEmpty, r.outcome, 0)
                 ELSE Call("upsert", uri, content, pr, r.outcome,
                           RemoveCount(Table, uri))

\* RemoveFile(uri)
RemoveFile(uri) ==
  /\ \E T \in {RemoveSymbolsByUri(Table, uri)} : SetTable(T)
  /\ lastOp' = Call("remove", uri, 0, ResultEmpty, "returned", RemoveCount(Table, uri))

Upsert ==
  /\ \E uri \in Uris, content \in Contents, pr \in ParseResults :
       UpsertFile(uri, content, pr)
  /\ UNCHANGED <<parserVars, stepVars, moreVars>>

Remove ==
  /\ \E uri \in Uris : RemoveFile(uri)
  /\ UNCHANGED <<parserVars, stepVars, moreVars>>

-----------------------------------------------------------------------------
(* update_from_parse_result statement by statement, with a reader.  The     *)
(* class takes no lock, so a reader on another thread can run between any   *)
(* two statements of an update; updates themselves are serialized by the    *)
(* caller.                                                                  *)

NoRun == [active |-> FALSE, uri |-> None, content |-> 0, pc |-> "idle",
          calls |-> <<>>, todo |-> <<>>, before |-> <<>>]

NoRead == [valid |-> FALSE, uri |-> None, by_uri |-> <<>>, by_name |-> <<>>,
           before |-> <<>>, calls |-> <<>>]

StepInit == run = NoRun /\ seen = NoRead

\* lines 224-231: the call passes the change check
BeginUpdate ==
  /\ ~run.active
  /\ \E uri \in Uris, content \in Contents, pr \in ParseResults :
       /\ ~HashUnchanged(Table, uri, content)
       /\ run' = [active |-> TRUE, uri |-> uri, content |-> content, pc |-> "remove",
                  calls |-> InsertCalls(uri, pr), todo |-> InsertCalls(uri, pr),
                  before |-> GetSymbolsByUri(Table, uri)]
  /\ seen' = NoRead
  /\ UNCHANGED <<symbols, file_hashes, uri_to_symbols, lastOp, parserVars, moreVars>>

\* lines 233-234: self.remove_symbols_by_uri(uri)
StepRemove ==
  /\ run.active /\ run.pc = "remove"
  /\ \E T \in {RemoveSymbolsByUri(Table, run.uri)} : SetTable(T)
  /\ run' = [run EXCEPT !.pc = "hash"]
  /\ UNCHANGED <<seen, lastOp, parserVars, moreVars>>

\* lines 236-237: self._file_hashes[uri] = new_hash
StepHash ==
  /\ run.active /\ run.pc = "hash"
  /\ file_hashes' = SetKey(file_hashes, run.uri, HashContent(run.content))
  /\ run' = [run EXCEPT !.pc = "insert"]
  /\ UNCHANGED <<symbols, uri_to_symbols, seen, lastOp, parserVars, moreVars>>

\* lines 239-306: the next add_symbol call
StepInsert ==
  /\ run.active /\ run.pc = "insert" /\ run.todo # <<>>
  /\ \E T \in {AddSymbol(Table, Head(run.todo))} : SetTable(T)
  /\ run' = [run EXCEPT !.todo = Tail(@)]
  /\ UNCHANGED <<seen, lastOp, parserVars, moreVars>>

\* the call returns or raises after its last add_symbol call
StepReturn ==
  /\ run.active /\ run.pc = "insert" /\ run.todo = <<>>
  /\ run' = NoRun
  /\ UNCHANGED <<symbols, file_hashes, uri_to_symbols, seen, lastOp, parserVars, moreVars>>

\* a reader calls get_symbols_by_uri(uri) and search_symbols("", uri) on the
\* file whose update is in progress
ReadDuringUpdate ==
  /\ run.active
  /\ seen' = [valid |-> TRUE, uri |-> run.uri,
              by_uri |-> GetSymbolsByUri(Table, run.uri),
              by_name |-> SearchSymbols(Table, <<>>, run.uri, ""),
              before |-> run.before, calls |-> run.calls]
  /\ UNCHANGED <<symbols, file_hashes, uri_to_symbols, run, lastOp, parserVars, moreVars>>

-----------------------------------------------------------------------------
(* MatlabParser (src/src/parser/matlab_parser.py): scanning of one line.    *)
(* A line is a sequence of characters; the operators below compute what the *)
(* regular expressions of the class match on it.                            *)

\* \w
WordChars ==
  {"a", "b", "c", "d", "e", "f", "g", "h", "i", "j", "k", "l", "m", "n", "o",
   "p", "q", "r", "s", "t", "u", "v", "w", "x", "y", "z",
   "A", "B", "C", "D", "E", "F", "G", "H", "I", "J", "K", "L", "M", "N", "O",
   "P", "Q", "R", "S", "T", "U", "V", "W", "X", "Y", "Z",
   "0", "1", "2", "3", "4", "5", "6", "7", "8", "9", "_"}

\* \s within a line
SpaceChars == {" ", "\t"}

IsWordChar(ch) == ch \in WordChars

IsSpace(ch) == ch \in SpaceChars

RECURSIVE SkipSpace(_, _)
\* \s* from position i: the first position not holding a space
SkipSpace(s, i) ==
  IF i =< Len(s) /\ IsSpace(s[i]) THEN SkipSpace(s, i + 1) ELSE i

RECURSIVE WordEnd(_, _)
\* \w* from position i: the first position not holding a word character
WordEnd(s, i) ==
  IF i =< Len(s) /\ IsWordChar(s[i]) THEN WordEnd(s, i + 1) ELSE i

\* the literal lit stands at position i
At(s, i, lit) == i + Len(lit) - 1 =< Len(s) /\ SubSeq(s, i, i + Len(lit) - 1) = lit

CharAt(s, i, ch) == i =< Len(s) /\ s[i] = ch

RECURSIVE StripLeft(_)
StripLeft(s) == IF s # <<>> /\ IsSpace(Head(s)) THEN StripLeft(Tail(s)) ELSE s

RECURSIVE StripRight(_)
StripRight(s) ==
  IF s # <<>> /\ IsSpace(s[Len(s)]) THEN StripRight(SubSeq(s, 1, Len(s) - 1)) ELSE s

\* str.strip
Strip(s) == StripRight(StripLeft(s))

\* str.find, 1-based; 0 when sub does not occur
Find(s, sub) ==
  IF \E i \in 1 .. Len(s) : At(s, i, sub)
  THEN CHOOSE i \in 1 .. Len(s) : At(s, i, sub) /\ \A j \in 1 .. (i - 1) : ~At(s, j, sub)
  ELSE 0

\* name_pos + 1, with name_pos = 0 when find returns -1
NameColumn(line, name) == IF Find(line, name) = 0 THEN 1 ELSE Find(line, name)

RECURSIVE Split(_, _)
\* str.split(sep) for a one-character sep
Split(s, sep) ==
  IF \E i \in 1 .. Len(s) : s[i] = sep
  THEN LET i == CHOOSE k \in 1 .. Len(s) : s[k] = sep /\ \A j \in 1 .. (k - 1) : s[j] # sep
       IN <<SubSeq(s, 1, i - 1)>> \o Split(SubSeq(s, i + 1, Len(s)), sep)
  ELSE <<s>>

\* an argument text taken as one argument
ArgList_Whole(t) == IF t = <<>> THEN <<>> ELSE <<Strip(t)>>

\* [s.strip() for s in text.split(",")], [] for an empty or missing text
ArgList(t) ==
  IF t = <<>> THEN <<>>
  ELSE LET parts == Split(t, ",") IN [i \in 1 .. Len(parts) |-> Strip(parts[i])]

KwFunction == <<"f", "u", "n", "c", "t", "i", "o", "n">>
KwEnd == <<"e", "n", "d">>
KwClassdef == <<"c", "l", "a", "s", "s", "d", "e", "f">>
KwProperties == <<"p", "r", "o", "p", "e", "r", "t", "i", "e", "s">>
KwGlobal == <<"g", "l", "o", "b", "a", "l">>
KwPersistent == <<"p", "e", "r", "s", "i", "s", "t", "e", "n", "t">>
KwIf == <<"i", "f">>
Space == <<" ">>

NoMatch == [ok |-> FALSE]

\* \s*\(([^)]*)\)\s*$ from position i: the text between the parentheses
ArgsTail(line, i) ==
  LET p == SkipSpace(line, i)
  IN IF CharAt(line, p, "(") /\ \E q \in (p + 1) .. Len(line) : line[q] = ")"
     THEN LET q == CHOOSE k \in (p + 1) .. Len(line) :
                     line[k] = ")" /\ \A j \in (p + 1) .. (k - 1) : line[j] # ")"
          IN IF SkipSpace(line, q + 1) = Len(line) + 1
             THEN [ok |-> TRUE, inputs |-> SubSeq(line, p + 1, q - 1)]
             ELSE NoMatch
     ELSE NoMatch

\* FUNCTION_PATTERN.match(line), and METHOD_PATTERN, which is the same
\* expression: ^\s*function\s+(?:(\w+)\s*=\s*)?(\w+)\s*\(([^)]*)\)\s*$
FunctionMatch(line) ==
  LET i0 == SkipSpace(line, 1)
      i1 == i0 + Len(KwFunction)
      i2 == SkipSpace(line, i1)
      e1 == WordEnd(line, i2)
      j == SkipSpace(line, e1)
      k == SkipSpace(line, j + 1)
      e2 == WordEnd(line, k)
  IN IF ~(At(line, i0, KwFunction) /\ i2 > i1 /\ e1 > i2) THEN NoMatch
     ELSE IF CharAt(line, j, "=") /\ e2 > k /\ ArgsTail(line, e2).ok
     THEN [ok |-> TRUE, outputs |-> SubSeq(line, i2, e1 - 1),
           name |-> SubSeq(line, k, e2 - 1), inputs |-> ArgsTail(line, e2).inputs]
     ELSE IF ArgsTail(line, e1).ok
     THEN [ok |-> TRUE, outputs |-> None,
           name |-> SubSeq(line, i2, e1 - 1), inputs |-> ArgsTail(line, e1).inputs]
     ELSE NoMatch

\* _extract_function: the record it returns
ExtractFunction(line, line_num) ==
  LET m == FunctionMatch(line)
  IN IF ~m.ok THEN NoMatch
     ELSE [ok |-> TRUE,
           info |-> [name |-> m.name, line |-> line_num,
                     column |-> NameColumn(line, m.name),
                     input_args |-> ArgList(m.inputs),
                     output_args |-> ArgList(m.outputs),
                     is_nested |-> FALSE, parent_function |-> None,
                     parent_class |-> None, docstring |-> None]]

\* _extract_classdef: CLASSDEF_PATTERN is ^\s*classdef\s+(\w+)\s*\b
ExtractClassdef(line, line_num) ==
  LET i0 == SkipSpace(line, 1)
      i1 == i0 + Len(KwClassdef)
      i2 == SkipSpace(line, i1)
      e == WordEnd(line, i2)
  IN IF At(line, i0, KwClassdef) /\ i2 > i1 /\ e > i2
     THEN [ok |-> TRUE,
           info |-> [name |-> SubSeq(line, i2, e - 1), line |-> line_num,
                     column |-> NameColumn(line, SubSeq(line, i2, e - 1)),
                     properties |-> <<>>, methods |-> <<>>, docstring |-> None]]
     ELSE NoMatch

\* _extract_property: re.match(r"^\s*(\w+)", line)
ExtractProperty(line) ==
  LET i0 == SkipSpace(line, 1)
      e == WordEnd(line, i0)
  IN IF e > i0 THEN [ok |-> TRUE, name |-> SubSeq(line, i0, e - 1)] ELSE NoMatch

\* _extract_end: FUNCTION_END_PATTERN is ^\s*end\s*($|%\s*\w+\s*$)
ExtractEnd(line) ==
  LET i0 == SkipSpace(line, 1)
      j == SkipSpace(line, i0 + Len(KwEnd))
      k == SkipSpace(line, j + 1)
      e == WordEnd(line, k)
  IN /\ At(line, i0, KwEnd)
     /\ \/ j = Len(line) + 1
        \/ CharAt(line, j, "%") /\ e > k /\ SkipSpace(line, e) = Len(line) + 1

\* the rest of VARIABLE_PATTERN after the name: \s*(?:=\s*.+)?\s*(?:;.*)?$
VariableTail(line, i) ==
  LET r == SkipSpace(line, i)
  IN \/ r = Len(line) + 1
     \/ CharAt(line, r, ";")
     \/ CharAt(line, r, "=") /\ r + 1 =< Len(line)

\* VARIABLE_PATTERN with the modifier group taken: the modifier, \s+, the name
ModifiedVariable(line, kw) ==
  LET i0 == SkipSpace(line, 1)
      i1 == i0 + Len(kw)
      i2 == SkipSpace(line, i1)
      e == WordEnd(line, i2)
  IN IF At(line, i0, kw) /\ i2 > i1 /\ e > i2 /\ VariableTail(line, e)
     THEN [ok |-> TRUE, name |-> SubSeq(line, i2, e - 1)]
     ELSE NoMatch

\* _extract_variable: the record it returns
ExtractVariable(line, line_num) ==
  LET i0 == SkipSpace(line, 1)
      e == WordEnd(line, i0)
      g == ModifiedVariable(line, KwGlobal)
      p == ModifiedVariable(line, KwPersistent)
      info(name, glob, pers) ==
        [name |-> name, line |-> line_num, column |-> NameColumn(line, name),
         is_global |-> glob, is_persistent |-> pers]
  IN IF g.ok THEN [ok |-> TRUE, info |-> info(g.name, TRUE, FALSE)]
     ELSE IF p.ok THEN [ok |-> TRUE, info |-> info(p.name, FALSE, TRUE)]
     ELSE IF e > i0 /\ VariableTail(line, e)
     THEN [ok |-> TRUE, info |-> info(SubSeq(line, i0, e - 1), FALSE, FALSE)]
     ELSE NoMatch

\* COMMENT_PATTERN is ^(.*?)(?:;|%)([^%].*)$ : the first ; or % that is
\* followed by a character other than %
IsCommentStart(line, p) ==
  /\ line[p] \in {";", "%"}
  /\ p + 1 =< Len(line)
  /\ line[p + 1] # "%"

\* _extract_line_comment: the record it returns; column is the position after
\* the separator
ExtractLineComment(line, line_num) ==
  IF \E p \in 1 .. Len(line) : IsCommentStart(line, p)
  THEN LET p == CHOOSE k \in 1 .. Len(line) :
                  IsCommentStart(line, k) /\ \A j \in 1 .. (k - 1) : ~IsCommentStart(line, j)
           content == SubSeq(line, p + 1, Len(line))
       IN IF Strip(content) # <<>>
          THEN [ok |-> TRUE,
                info |-> [text |-> Strip(content), line |-> line_num,
                          column |-> p + 1, is_block |-> FALSE]]
          ELSE NoMatch
  ELSE NoMatch

-----------------------------------------------------------------------------
(* MatlabParser.parse_content as a state machine: one step per line *)

\* the lines a text is made of
Lines ==
  << KwFunction \o Space \o <<"f", "(", ")">>,
     KwFunction \o Space \o <<"y", " ", "=", " ", "g", "(", "x", ",", " ", "z", ")">>,
     KwEnd,
     KwClassdef \o Space \o <<"C">>,
     <<"x", " ", "=", " ", "1", ";">>,
     KwIf \o Space \o <<"x">>,
     KwGlobal \o Space \o <<"x">>,
     KwProperties,
     <<"%", " ", "n">>,
     KwFunction \o Space \o <<"[", "a", ",", " ", "b", "]", " ", "=", " ", "h", "(", "x", ")">>,
     KwEnd \o Space \o <<"%", " ", "n">>,
     <<"p">>,
     KwPersistent \o Space \o <<"x">> >>

\* __init__ and the reset at the head of parse_content
ParserInit ==
  /\ text = <<>>
  /\ nesting_level = 0
  /\ current_function = 0
  /\ current_class = 0
  /\ function_stack = <<>>
  /\ class_stack = <<>>
  /\ functions = <<>>
  /\ variables = <<>>
  /\ classes = <<>>
  /\ comments = <<>>
  /\ function_tree = EmptyDict

\* list[-1]
Last(seq) == seq[Len(seq)]

\* what the loop body computes from a line alone: the line comment, the line
\* left for the recognizers, and what each recognizer returns on it
ScanLine(raw, line_num) ==
  LET comment == IF Strip(raw) = <<>> THEN NoMatch
                 ELSE ExtractLineComment(raw, line_num)
      line == IF comment.ok THEN SubSeq(raw, 1, comment.info.column - 1) ELSE raw
  IN [blank |-> Strip(raw) = <<>> \/ Strip(line) = <<>>,
      comment |-> comment,
      class_match |-> ExtractClassdef(line, line_num),
      function_match |-> ExtractFunction(line, line_num),
      prop_match |-> ExtractProperty(line),
      is_end |-> ExtractEnd(line),
      var_match |-> ExtractVariable(line, line_num)]

LineIds == 1 .. Len(Lines)

\* the lines that texts with block comments are made of besides: the two
\* markers, a block comment on one line, and the empty line
BlockLines ==
  << <<"%", "{">>,
     <<"}", "%">>,
     <<"%", "{", " ">> \o KwFunction \o Space \o <<"f", "(", ")", " ", "}", "%">>,
     <<>> >>

AllLines == Lines \o BlockLines

\* ScanLine of every line at every line number
Scan ==
  [k \in 1 .. Len(AllLines) |->
     [n \in 1 .. (MaxLines + 1) |-> ScanLine(AllLines[k], n)]]

\* the scan of line k as the next line of the text
Scanned(k) == Scan[k][Len(text) + 1]

\* which recognizer of the loop body takes line k, given the parser state
Branch(k) ==
  IF Scan[k][1].blank THEN "blank"
  ELSE IF Scan[k][1].class_match.ok THEN "class"
  ELSE IF Scan[k][1].function_match.ok THEN "function"
  ELSE IF current_class # 0 THEN "property"
  ELSE IF Scan[k][1].is_end THEN "end"
  ELSE "variable"

\* the loop head: the line is read, and its line comment, if any, recorded
ReadLine(k) ==
  /\ Len(text) < MaxLines
  /\ text' = Append(text, k)
  /\ comments' = IF Scanned(k).comment.ok
                 THEN Append(comments, Scanned(k).comment.info)
                 ELSE comments

\* class definition: lines 195-202
ClassdefLine(k) ==
  /\ Branch(k) = "class"
  /\ ReadLine(k)
  /\ classes' = Append(classes, Scanned(k).class_match.info)
  /\ class_stack' = Append(class_stack, Len(classes) + 1)
  /\ current_class' = Len(classes) + 1
  /\ nesting_level' = nesting_level + 1
  /\ UNCHANGED <<current_function, function_stack, functions, variables, function_tree>>

\* a function definition that leaves function_tree alone
FunctionLine_NoTree(k) ==
  /\ Branch(k) = "function"
  /\ ReadLine(k)
  /\ LET m == Scanned(k).function_match.info
         withClass == IF current_class # 0
                      THEN [m EXCEPT !.parent_class = classes[current_class].name]
                      ELSE m
     IN functions' =
          Append(functions,
                 IF current_function # 0
                 THEN [withClass EXCEPT
                         !.is_nested = TRUE,
                         !.parent_function = functions[current_function].name]
                 ELSE withClass)
  /\ function_stack' = Append(function_stack, Len(functions) + 1)
  /\ current_function' =
       IF nesting_level = 0 \/ current_class = 0 THEN Len(functions) + 1
       ELSE current_function
  /\ nesting_level' = nesting_level + 1
  /\ UNCHANGED <<current_class, class_stack, variables, classes, function_tree>>

\* function definition: lines 204-231
FunctionLine(k) ==
  /\ Branch(k) = "function"
  /\ ReadLine(k)
  /\ LET m == Scanned(k).function_match.info
         withClass == IF current_class # 0
                      THEN [m EXCEPT !.parent_class = classes[current_class].name]
                      ELSE m
         parent_name == functions[current_function].name
         function_match ==
           IF current_function # 0
           THEN [withClass EXCEPT !.is_nested = TRUE, !.parent_function = parent_name]
           ELSE withClass
     IN /\ functions' = Append(functions, function_match)
        /\ function_tree' =
             IF current_function = 0 THEN function_tree
             ELSE IF parent_name \in DOMAIN function_tree
             THEN [function_tree EXCEPT ![parent_name] = Append(@, function_match.name)]
             ELSE SetKey(function_tree, parent_name, <<function_match.name>>)
  /\ function_stack' = Append(function_stack, Len(functions) + 1)
  /\ current_function' =
       IF nesting_level = 0 \/ current_class = 0 THEN Len(functions) + 1
       ELSE current_function
  /\ nesting_level' = nesting_level + 1
  /\ UNCHANGED <<current_class, class_stack, variables, classes>>

\* inside a class every other line goes to _extract_property: lines 233-238
PropertyLine(k) ==
  /\ Branch(k) = "property"
  /\ ReadLine(k)
  /\ classes' =
       IF Scanned(k).prop_match.ok
       THEN [classes EXCEPT ![current_class].properties =
               Append(@, Scanned(k).prop_match.name)]
       ELSE classes
  /\ UNCHANGED <<nesting_level, current_function, current_class, function_stack,
                 class_stack, functions, variables, function_tree>>

\* an end statement that pops whatever the nesting level
EndLine_Unguarded(k) ==
  /\ Branch(k) = "end"
  /\ ReadLine(k)
  /\ nesting_level' = nesting_level - 1
  /\ current_class' = IF nesting_level - 1 = 0 THEN 0 ELSE current_class
  /\ current_function' = IF nesting_level - 1 = 0 THEN 0 ELSE current_function
  /\ UNCHANGED <<function_stack, class_stack, functions, variables, classes,
                 function_tree>>

\* end statement: lines 240-268
EndLine(k) ==
  /\ Branch(k) = "end"
  /\ ReadLine(k)
  /\ IF nesting_level > 0
     THEN /\ nesting_level' = nesting_level - 1
          /\ current_class' =
               IF class_stack # <<>> /\ nesting_level - 1 = Len(class_stack) - 1
               THEN Last(class_stack)
               ELSE IF nesting_level - 1 = 0 THEN 0
               ELSE current_class
          /\ current_function' =
               IF function_stack # <<>> /\ nesting_level - 1 = Len(function_stack) - 1
               THEN Last(function_stack)
               ELSE IF nesting_level - 1 = 0 THEN 0
               ELSE current_function
     ELSE UNCHANGED <<nesting_level, current_class, current_function>>
  /\ UNCHANGED <<function_stack, class_stack, functions, variables, classes,
                 function_tree>>

\* every matched variable is appended, whatever the nesting level
KeepsVariable_Any(k) ==
  /\ nesting_level = 0 \/ current_function # 0
  /\ Scan[k][1].var_match.ok

\* lines 270-280 append the variable of line k
KeepsVariable(k) ==
  /\ nesting_level = 0 \/ current_function # 0
  /\ Scan[k][1].var_match.ok
  /\ \/ nesting_level = 0
     \/ Scan[k][1].var_match.info.is_global
     \/ Scan[k][1].var_match.info.is_persistent

\* variable declaration that is recorded: lines 270-280
VariableLine(k) ==
  /\ Branch(k) = "variable"
  /\ KeepsVariable(k)
  /\ ReadLine(k)
  /\ variables' = Append(variables, Scanned(k).var_match.info)
  /\ UNCHANGED <<nesting_level, current_function, current_class, function_stack,
                 class_stack, functions, classes, function_tree>>

\* a blank line, or a line that no recognizer takes or whose variable is not
\* kept: lines 182-184, 192-193 and the fall through of 270-280
SkippedLine(k) ==
  /\ \/ Branch(k) = "blank"
     \/ Branch(k) = "variable" /\ ~KeepsVariable(k)
  /\ ReadLine(k)
  /\ UNCHANGED <<nesting_level, current_function, current_class, function_stack,
                 class_stack, functions, variables, classes, function_tree>>

ParseClassdef == (\E k \in LineIds : ClassdefLine(k)) /\ UNCHANGED <<indexVars, stepVars, moreVars>>

ParseFunction == (\E k \in LineIds : FunctionLine(k)) /\ UNCHANGED <<indexVars, stepVars, moreVars>>

ParseProperty == (\E k \in LineIds : PropertyLine(k)) /\ UNCHANGED <<indexVars, stepVars, moreVars>>

ParseEnd == (\E k \in LineIds : EndLine(k)) /\ UNCHANGED <<indexVars, stepVars, moreVars>>

ParseVariable == (\E k \in LineIds : VariableLine(k)) /\ UNCHANGED <<indexVars, stepVars, moreVars>>

ParseSkipped == (\E k \in LineIds : SkippedLine(k)) /\ UNCHANGED <<indexVars, stepVars, moreVars>>

-----------------------------------------------------------------------------
(* MatlabParser.parse_file: the text is extracted, then its result is handed *)
(* to the index                                                              *)

\* parse_content at work on the text: lines 120-121
ExtractLine ==
  /\ lastOp.op = "none"
  /\ \/ ParseFunction
     \/ ParseEnd
     \/ ParseVariable
     \/ ParseSkipped
     \/ ParseClassdef
     \/ ParseProperty

\* update_from_parse_result on the result of the text read so far: lines
\* 123-135; an exception of the update is caught and logged
IndexText ==
  /\ lastOp.op = "none"
  /\ \E uri \in {UriU}, content \in {0} :
       UpsertFile(uri, content, ParseResult(functions, variables, classes))
  /\ UNCHANGED <<parserVars, stepVars, moreVars>>

\* a failed read reported without an error entry
FailedRead_NoError ==
  [functions |-> <<>>, variables |-> <<>>, classes |-> <<>>, comments |-> <<>>,
   errors |-> <<>>]

\* what parse_file returns when the file cannot be read: lines 112-118
FailedRead ==
  [functions |-> <<>>, variables |-> <<>>, classes |-> <<>>, comments |-> <<>>,
   errors |-> <<"Failed to read file">>]

\* parse_file on a file that cannot be read, called before any extraction or
\* after a file was indexed: lines 106-118
ReadFails ==
  /\ lastOp.op = "upsert" \/ (lastOp.op = "none" /\ text = <<>>)
  /\ \E uri \in {UriW} :
       lastOp' = Call("parse_file", uri, 0, FailedRead, "unreadable", 0)
  /\ UNCHANGED <<symbols, file_hashes, uri_to_symbols, parserVars, stepVars, moreVars>>

-----------------------------------------------------------------------------
(* One parser instance used for one extraction after another *)

\* the lines of the texts given to a reused parser: function f(), end,
\* classdef C and x = 1;
ReuseLineIds == {1, 3, 4, 5}

\* what parse_content returns for the text read so far: lines 288-298
Extracted ==
  [functions |-> functions, variables |-> variables, classes |-> classes,
   comments |-> comments, function_tree |-> function_tree]

\* a call that takes over the nesting level of the call before
ResetState_KeepLevel ==
  /\ text' = <<>>
  /\ nesting_level' = nesting_level
  /\ current_function' = 0
  /\ current_class' = 0
  /\ function_stack' = <<>>
  /\ class_stack' = <<>>
  /\ functions' = <<>>
  /\ variables' = <<>>
  /\ classes' = <<>>
  /\ comments' = <<>>
  /\ function_tree' = EmptyDict

\* the head of parse_content: fresh lists and the reset of the instance
\* state, lines 153-165
ResetState ==
  /\ text' = <<>>
  /\ nesting_level' = 0
  /\ current_function' = 0
  /\ current_class' = 0
  /\ function_stack' = <<>>
  /\ class_stack' = <<>>
  /\ functions' = <<>>
  /\ variables' = <<>>
  /\ classes' = <<>>
  /\ comments' = <<>>
  /\ function_tree' = EmptyDict

\* parse_content is called again on the same instance; the extraction that
\* has just ended may be the one that is kept for comparison
BeginExtraction ==
  /\ text # <<>>
  /\ ResetState
  /\ \/ earlier' = [kept |-> TRUE, text |-> text, result |-> Extracted]
     \/ earlier' = earlier
  /\ UNCHANGED <<indexVars, stepVars, doc, held, cacheVars, restVars>>

\* the loop body on the next line of a text of fewer than MaxLines lines
ReuseLine ==
  /\ Len(text) + 1 < MaxLines
  /\ \E k \in ReuseLineIds :
       \/ FunctionLine(k)
       \/ EndLine(k)
       \/ VariableLine(k)
       \/ SkippedLine(k)
       \/ ClassdefLine(k)
       \/ PropertyLine(k)
  /\ UNCHANGED <<indexVars, stepVars, moreVars>>

-----------------------------------------------------------------------------
(* The block-comment pass at the head of parse_content *)

\* function f(), end, classdef C, x = 1; and the lines of BlockLines but
\* the empty one
BlockLineIds == {1, 3, 4, 5} \cup (Len(Lines) + 1 .. Len(Lines) + 3)

NewLine == "\n"

\* \s of a regular expression, and the characters str.strip takes off
IsWhite(ch) == ch \in {" ", "\t", NewLine}

RECURSIVE SkipWhite(_, _)
\* \s* from position i
SkipWhite(s, i) ==
  IF i =< Len(s) /\ IsWhite(s[i]) THEN SkipWhite(s, i + 1) ELSE i

RECURSIVE StripWhiteLeft(_)
StripWhiteLeft(s) ==
  IF s # <<>> /\ IsWhite(Head(s)) THEN StripWhiteLeft(Tail(s)) ELSE s

RECURSIVE StripWhiteRight(_)
StripWhiteRight(s) ==
  IF s # <<>> /\ IsWhite(s[Len(s)])
  THEN StripWhiteRight(SubSeq(s, 1, Len(s) - 1))
  ELSE s

\* str.strip on a text of several lines
StripWhite(s) == StripWhiteRight(StripWhiteLeft(s))

\* the content handed to parse_content: the lines joined by line ends
Content(ids) == Join([i \in 1 .. Len(ids) |-> AllLines[ids[i]]], <<NewLine>>)

BlockClose == <<"}", "%">>

\* the first }% at or after position i, 0 when there is none
CloseFrom(s, i) ==
  IF \E c \in i .. Len(s) : At(s, c, BlockClose)
  THEN CHOOSE c \in i .. Len(s) :
         At(s, c, BlockClose) /\ \A j \in i .. (c - 1) : ~At(s, j, BlockClose)
  ELSE 0

\* BLOCK_COMMENT_PATTERN, %\s*\{\s*(.*?)\s*\}% with DOTALL, matches from
\* position i: a %, white space, a {, and a }% somewhere after it
BlockAt(s, i) ==
  /\ CharAt(s, i, "%")
  /\ CharAt(s, SkipWhite(s, i + 1), "{")
  /\ CloseFrom(s, SkipWhite(s, i + 1) + 1) # 0

RECURSIVE BlockMatches(_, _)
\* finditer from position pos on: the matches, each with the positions of
\* its %, its { and its }, leftmost first and none overlapping another
BlockMatches(s, pos) ==
  IF \E i \in pos .. Len(s) : BlockAt(s, i)
  THEN LET i == CHOOSE k \in pos .. Len(s) :
                  BlockAt(s, k) /\ \A j \in pos .. (k - 1) : ~BlockAt(s, j)
           brace == SkipWhite(s, i + 1)
           close == CloseFrom(s, brace + 1)
       IN <<[start |-> i, brace |-> brace, close |-> close]>>
            \o BlockMatches(s, close + 2)
  ELSE <<>>

\* content.count("\n") on the first n characters
LineEnds(s, n) == Cardinality({i \in 1 .. n : s[i] = NewLine})

\* content.rfind("\n", 0, start) as a 1-based position, 0 when not found
LastLineEnd(s, i) ==
  IF \E j \in 1 .. (i - 1) : s[j] = NewLine
  THEN CHOOSE j \in 1 .. (i - 1) :
         s[j] = NewLine /\ \A l \in (j + 1) .. (i - 1) : s[l] # NewLine
  ELSE 0

\* _extract_block_comments: one record for each match
ExtractBlockComments(s) ==
  LET ms == BlockMatches(s, 1)
      line_num(m) == LineEnds(s, m.start - 1) + 1
  IN [n \in 1 .. Len(ms) |->
       [text |-> StripWhite(SubSeq(s, ms[n].brace + 1, ms[n].close - 1)),
        line |-> line_num(ms[n]),
        column |-> ms[n].start - LastLineEnd(s, ms[n].start),
        is_block |-> TRUE,
        block_start_line |-> line_num(ms[n]),
        block_end_line |-> LineEnds(s, ms[n].close + 1) + 1]]

RECURSIVE Cut(_, _, _)
\* s from position pos on with the matches ms taken out
Cut(s, ms, pos) ==
  IF ms = <<>> THEN SubSeq(s, pos, Len(s))
  ELSE SubSeq(s, pos, Head(ms).start - 1) \o Cut(s, Tail(ms), Head(ms).close + 2)

\* a pass that takes nothing out of the content
WithoutBlocks_Keep(s) == s

\* BLOCK_COMMENT_PATTERN.sub("", content): line 173
WithoutBlocks(s) == Cut(s, BlockMatches(s, 1), 1)

\* the line of AllLines that reads s
LineId(s) == CHOOSE k \in 1 .. Len(AllLines) : AllLines[k] = s

\* content_without_blocks.split("\n"): line 174
LinesWithoutBlocks(s) ==
  LET ls == Split(WithoutBlocks(s), NewLine)
  IN [i \in 1 .. Len(ls) |-> LineId(ls[i])]

\* a text of at most MaxLines lines is put together
WriteLine ==
  /\ ~doc.stripped
  /\ Len(doc.raw) < MaxLines
  /\ \E k \in BlockLineIds : doc' = [doc EXCEPT !.raw = Append(@, k)]
  /\ UNCHANGED <<indexVars, parserVars, stepVars, earlier, held, cacheVars, restVars>>

\* parse_content up to the loop: the block comments are recorded and taken
\* out of the working copy, lines 167-174
StripBlocks ==
  /\ ~doc.stripped
  /\ doc.raw # <<>>
  /\ \E content \in {Content(doc.raw)} :
       /\ comments' = comments \o ExtractBlockComments(content)
       /\ doc' = [doc EXCEPT !.work = LinesWithoutBlocks(content),
                             !.stripped = TRUE]
  /\ UNCHANGED <<text, nesting_level, current_function, current_class,
                 function_stack, class_stack, functions, variables, classes,
                 function_tree>>
  /\ UNCHANGED <<indexVars, stepVars, earlier, held, cacheVars, restVars>>

\* the loop body on the next line of the working copy
ScanWork ==
  /\ doc.stripped
  /\ Len(text) < Len(doc.work)
  /\ \E k \in {doc.work[Len(text) + 1]} :
       \/ FunctionLine(k)
       \/ EndLine(k)
       \/ VariableLine(k)
       \/ SkippedLine(k)
       \/ ClassdefLine(k)
       \/ PropertyLine(k)
  /\ UNCHANGED <<indexVars, stepVars, moreVars>>

-----------------------------------------------------------------------------
(* Queries on the index, and the lists they hand to the caller *)

\* the files the caller indexes before it queries, and their contents
IndexedUris == {UriU, UriUV}

IndexedContents == {0, 1}

\* the filters of search_symbols: uri = None and kind = "" are the omitted ones
SearchUris == {None} \cup IndexedUris

SearchKinds == {"", KIND_FUNCTION, KIND_PROPERTY}

\* the symbols inserted for each file since it was last emptied, in call order
NoLog == [u \in Uris |-> <<>>]

\* a query that hands out the index's own list
ReturnedList_Shared(T, uri) ==
  [items |-> GetSymbolsByUri(T, uri), alias |-> uri \in DOMAIN T.uri_to_symbols]

\* get_symbols_by_uri: self._uri_to_symbols.get(uri, []).copy(), a new list
\* object with the same elements
ReturnedList(T, uri) == [items |-> GetSymbolsByUri(T, uri), alias |-> FALSE]

\* list.reverse()
Reverse(seq) == [i \in 1 .. Len(seq) |-> seq[Len(seq) + 1 - i]]

\* what a caller can make of a list it holds: clear(), pop(), reverse()
Changes(items) ==
  {<<>>, Reverse(items)}
    \cup (IF items = <<>> THEN {} ELSE {SubSeq(items, 1, Len(items) - 1)})

\* update_from_parse_result, before the first query
InsertFile ==
  /\ held.op = "none"
  /\ \E uri \in IndexedUris, content \in IndexedContents, pr \in ParseResults :
       /\ UpsertFile(uri, content, pr)
       /\ held' = IF lastOp'.outcome = "skipped" THEN held
                  ELSE [held EXCEPT !.log[uri] = InsertCalls(uri, pr)]
  /\ UNCHANGED <<parserVars, stepVars, doc, earlier, cacheVars, restVars>>

\* remove_symbols_by_uri, before the first query
DropFile ==
  /\ held.op = "none"
  /\ \E uri \in IndexedUris :
       /\ RemoveFile(uri)
       /\ held' = [held EXCEPT !.log[uri] = <<>>]
  /\ UNCHANGED <<parserVars, stepVars, doc, earlier, cacheVars, restVars>>

\* get_symbols_by_uri(uri)
QueryFile ==
  /\ \E uri \in Uris :
       \E r \in {ReturnedList(Table, uri)} :
         held' = [held EXCEPT !.op = "by_uri", !.uri = uri, !.query = <<>>,
                              !.kind = "", !.items = r.items,
                              !.alias = r.alias, !.fresh = TRUE]
  /\ UNCHANGED <<indexVars, parserVars, stepVars, doc, earlier, cacheVars, restVars>>

\* the caller changes the list it got from get_symbols_by_uri; the list of
\* the index changes with it when the two are one object
ChangeReturned ==
  /\ held.op = "by_uri"
  /\ held.fresh
  /\ \E items \in Changes(held.items) :
       /\ items # held.items
       /\ held' = [held EXCEPT !.items = items, !.fresh = FALSE]
       /\ uri_to_symbols' = IF held.alias
                            THEN [uri_to_symbols EXCEPT ![held.uri] = items]
                            ELSE uri_to_symbols
  /\ UNCHANGED <<symbols, file_hashes, lastOp, parserVars, stepVars, doc,
                 earlier, cacheVars, restVars>>

\* search_symbols(query, uri, kind)
Search ==
  /\ \E query \in Queries, uri \in SearchUris, kind \in SearchKinds :
       held' = [held EXCEPT !.op = "search", !.uri = uri, !.query = query,
                            !.kind = kind,
                            !.items = SearchSymbols(Table, query, uri, kind),
                            !.alias = FALSE, !.fresh = TRUE]
  /\ UNCHANGED <<indexVars, parserVars, stepVars, doc, earlier, cacheVars, restVars>>

-----------------------------------------------------------------------------
(* CacheManager (src/src/matlab_lsp_server/utils/cache.py) *)

\* Latest reading of the clock.
MaxTime == 2

\* Most get, invalidate and invalidate_prefix calls made on one cache.
MaxCalls == 3

CacheKeys == {<<"a">>, <<"a", "b">>}

CachePrefixes == {<<>>, <<"a">>, <<"a", "b">>, <<"b">>}

CacheValues == {"v", "w"}

\* times to live passed to set, in clock ticks
Ttls == {0, 1}

\* what get returns for a miss
Miss == "None"

CacheEntry(value, timestamp, ttl) ==
  [value |-> value, timestamp |-> timestamp, ttl |-> ttl]

\* an entry that never expires
IsExpired_Never(entry, t) == FALSE

\* _is_expired, at clock reading t
IsExpired(entry, t) == t - entry.timestamp > entry.ttl

\* a removal that is not counted
CacheInvalidate_Uncounted(C, S, key) ==
  [cache |-> DelKey(C, key), stats |-> S, existed |-> key \in DOMAIN C]

\* invalidate
CacheInvalidate(C, S, key) ==
  IF key \in DOMAIN C
  THEN [cache |-> DelKey(C, key),
        stats |-> [S EXCEPT !.evictions = @ + 1],
        existed |-> TRUE]
  ELSE [cache |-> C, stats |-> S, existed |-> FALSE]

\* an expired entry that get leaves in the store
CacheGet_KeepExpired(C, S, key, t) ==
  IF key \in DOMAIN C /\ ~IsExpired(C[key], t)
  THEN [cache |-> C, stats |-> [S EXCEPT !.hits = @ + 1], value |-> C[key].value]
  ELSE [cache |-> C, stats |-> [S EXCEPT !.misses = @ + 1], value |-> Miss]

\* get, at clock reading t
CacheGet(C, S, key, t) ==
  IF key \notin DOMAIN C
  THEN [cache |-> C, stats |-> [S EXCEPT !.misses = @ + 1], value |-> Miss]
  ELSE IF IsExpired(C[key], t)
  THEN LET inv == CacheInvalidate(C, S, key)
       IN [cache |-> inv.cache,
           stats |-> [inv.stats EXCEPT !.misses = @ + 1],
           value |-> Miss]
  ELSE [cache |-> C, stats |-> [S EXCEPT !.hits = @ + 1], value |-> C[key].value]

\* set, at clock reading t
CacheSet(C, key, value, ttl, t) == SetKey(C, key, CacheEntry(value, t, ttl))

\* a key is taken only when it equals the prefix
KeyHasPrefix_Equal(key, prefix) == key = prefix

\* key.startswith(prefix)
KeyHasPrefix(key, prefix) == StartsWith(key, prefix)

\* invalidate_prefix
CacheInvalidatePrefix(C, S, prefix) ==
  LET hit == {k \in DOMAIN C : KeyHasPrefix(k, prefix)}
  IN [cache |-> [k \in (DOMAIN C) \ hit |-> C[k]],
      stats |-> [S EXCEPT !.evictions = @ + Cardinality(hit)],
      count |-> Cardinality(hit)]

\* a call on the cache and what it returned: value for get, existed for
\* invalidate, count for invalidate_prefix
CacheCall(op, key, value, existed, count) ==
  [op |-> op, key |-> key, value |-> value, existed |-> existed, count |-> count]

\* counted from outside: get calls, get calls on a stored entry whose time to
\* live had not run out, entries taken out of the store, and the calls that
\* move a counter
NoTally == [gets |-> 0, served |-> 0, removed |-> 0, calls |-> 0]

CacheInit ==
  /\ cache = EmptyDict
  /\ stats = [hits |-> 0, misses |-> 0, evictions |-> 0]
  /\ now = 0
  /\ cacheOp = CacheCall("none", <<>>, Miss, FALSE, 0)
  /\ tally = NoTally

\* the calls that move a counter are capped
CallsLeft == tally.calls < MaxCalls

\* how many entries of C are no longer in D
Dropped(C, D) == Cardinality((DOMAIN C) \ (DOMAIN D))

NotCache == <<indexVars, parserVars, stepVars, doc, earlier, held, restVars>>

Get ==
  /\ CallsLeft
  /\ \E key \in CacheKeys :
       \E r \in {CacheGet(cache, stats, key, now)} :
         /\ cache' = r.cache
         /\ stats' = r.stats
         /\ cacheOp' = CacheCall("get", key, r.value, FALSE, 0)
         /\ tally' = [gets |-> tally.gets + 1,
                      served |-> tally.served +
                        (IF key \in DOMAIN cache
                            /\ now =< cache[key].timestamp + cache[key].ttl
                         THEN 1 ELSE 0),
                      removed |-> tally.removed + Dropped(cache, r.cache),
                      calls |-> tally.calls + 1]
  /\ UNCHANGED <<now, NotCache>>

Set ==
  /\ \E key \in CacheKeys, value \in CacheValues, ttl \in Ttls :
       /\ cache' = CacheSet(cache, key, value, ttl, now)
       /\ cacheOp' = CacheCall("set", key, value, FALSE, 0)
  /\ UNCHANGED <<stats, now, tally, NotCache>>

Invalidate ==
  /\ CallsLeft
  /\ \E key \in CacheKeys :
       \E r \in {CacheInvalidate(cache, stats, key)} :
         /\ cache' = r.cache
         /\ stats' = r.stats
         /\ cacheOp' = CacheCall("invalidate", key, Miss, r.existed, 0)
         /\ tally' = [tally EXCEPT !.removed = @ + Dropped(cache, r.cache),
                                   !.calls = @ + 1]
  /\ UNCHANGED <<now, NotCache>>

InvalidatePrefix ==
  /\ CallsLeft
  /\ \E prefix \in CachePrefixes :
       \E r \in {CacheInvalidatePrefix(cache, stats, prefix)} :
         /\ cache' = r.cache
         /\ stats' = r.stats
         /\ cacheOp' = CacheCall("invalidate_prefix", prefix, Miss, FALSE, r.count)
         /\ tally' = [tally EXCEPT !.removed = @ + Dropped(cache, r.cache),
                                   !.calls = @ + 1]
  /\ UNCHANGED <<now, NotCache>>

\* clear: the entries go, the counters stay
Clear ==
  /\ cache' = EmptyDict
  /\ cacheOp' = CacheCall("clear", <<>>, Miss, FALSE, 0)
  /\ UNCHANGED <<stats, now, tally, NotCache>>

\* the clock moves on
Tick ==
  /\ now < MaxTime
  /\ now' = now + 1
  /\ UNCHANGED <<cache, stats, cacheOp, tally, NotCache>>

-----------------------------------------------------------------------------
(* LRUCache (src/src/utils/performance.py) *)

\* Most calls made on one LRU cache.
MaxLruCalls == 4

LruKeys == {"a", "b", "c"}

LruValues == {"v", "w"}

\* the capacities a cache is built with
Capacities == {1, 2}

\* list.remove(x): the list without the first x
RemoveFirst(seq, x) ==
  IF \E i \in 1 .. Len(seq) : seq[i] = x
  THEN LET i == CHOOSE k \in 1 .. Len(seq) :
                  seq[k] = x /\ \A j \in 1 .. (k - 1) : seq[j] # x
       IN SubSeq(seq, 1, i - 1) \o SubSeq(seq, i + 1, Len(seq))
  ELSE seq

\* a get that leaves the order of use alone
LRUGet_NoTouch(C, O, key) ==
  IF key \notin DOMAIN C THEN [cache |-> C, order |-> O, value |-> Miss]
  ELSE [cache |-> C, order |-> O, value |-> C[key]]

\* LRUCache.get: lines 32-50
LRUGet(C, O, key) ==
  IF key \notin DOMAIN C THEN [cache |-> C, order |-> O, value |-> Miss]
  ELSE [cache |-> C, order |-> Append(RemoveFirst(O, key), key), value |-> C[key]]

\* LRUCache.put: lines 52-78
LRUPut(cap, C, O, key, value) ==
  IF key \in DOMAIN C
  THEN [cache |-> SetKey(C, key, value), order |-> Append(RemoveFirst(O, key), key)]
  ELSE LET full == Cardinality(DOMAIN C) >= cap
           kept == IF full THEN DelKey(C, Head(O)) ELSE C
           rest == IF full THEN Tail(O) ELSE O
       IN [cache |-> SetKey(kept, key, value), order |-> Append(rest, key)]

\* a call on the LRU cache: what it was and returned, the number of calls so
\* far, and for each key the number of the call that last put or found it
LruCall(op, key, value, calls, used) ==
  [op |-> op, key |-> key, value |-> value, calls |-> calls, used |-> used]

\* no LRU cache has been built yet
LruInit ==
  /\ capacity = 0
  /\ lru_cache = EmptyDict
  /\ lru_order = <<>>
  /\ lruOp = LruCall("none", "", Miss, 0, [k \in LruKeys |-> 0])

NotLru == <<indexVars, parserVars, stepVars, doc, earlier, held, cacheVars,
            storeVars, syncVars, outline>>

\* LRUCache(capacity): lines 20-30
NewLru ==
  /\ capacity = 0
  /\ capacity' \in Capacities
  /\ lru_cache' = EmptyDict
  /\ lru_order' = <<>>
  /\ lruOp' = LruCall("new", "", Miss, 0, [k \in LruKeys |-> 0])
  /\ UNCHANGED NotLru

\* get(key)
GetLru ==
  /\ capacity > 0
  /\ lruOp.calls < MaxLruCalls
  /\ \E key \in LruKeys :
       \E r \in {LRUGet(lru_cache, lru_order, key)} :
         /\ lru_cache' = r.cache
         /\ lru_order' = r.order
         /\ lruOp' = LruCall("get", key, r.value, lruOp.calls + 1,
                             IF key \in DOMAIN lru_cache
                             THEN [lruOp.used EXCEPT ![key] = lruOp.calls + 1]
                             ELSE lruOp.used)
  /\ UNCHANGED <<capacity, NotLru>>

\* put(key, value)
PutLru ==
  /\ capacity > 0
  /\ lruOp.calls < MaxLruCalls
  /\ \E key \in LruKeys, value \in LruValues :
       \E r \in {LRUPut(capacity, lru_cache, lru_order, key, value)} :
         /\ lru_cache' = r.cache
         /\ lru_order' = r.order
         /\ lruOp' = LruCall("put", key, value, lruOp.calls + 1,
                             [lruOp.used EXCEPT ![key] = lruOp.calls + 1])
  /\ UNCHANGED <<capacity, NotLru>>

-----------------------------------------------------------------------------
(* DocumentStore (src/src/utils/document_store.py) *)

\* Most update_document_content calls counted for one uri.
MaxUpdates == 2

\* the texts of the documents; text 1 holds two functions, text 2 a function,
\* a variable and two classes
DocTexts == {1, 2}

Document(uri, path, content, version) ==
  [uri |-> uri, path |-> path, content |-> content, version |-> version]

\* add_document: the store it leaves
AddDocument(D, uri, path, content) == SetKey(D, uri, Document(uri, path, content, 0))

\* an update that leaves the version alone
UpdateDocumentContent_SameVersion(D, uri, new_content) ==
  IF uri \in DOMAIN D
  THEN LET docs == [D EXCEPT ![uri].content = new_content]
       IN [docs |-> docs, value |-> {docs[uri]}]
  ELSE [docs |-> D, value |-> {}]

\* update_document_content: the store it leaves and what it returns, the
\* document or nothing (None)
UpdateDocumentContent(D, uri, new_content) ==
  IF uri \in DOMAIN D
  THEN LET docs == [D EXCEPT ![uri].content = new_content, ![uri].version = @ + 1]
       IN [docs |-> docs, value |-> {docs[uri]}]
  ELSE [docs |-> D, value |-> {}]

\* remove_document: the store it leaves
RemoveDocument(D, uri) == IF uri \in DOMAIN D THEN DelKey(D, uri) ELSE D

\* a call on the store: what it was, the document it returned if any, and
\* for each uri the update calls made since the uri was last added
StoreCall(op, uri, value, updates) ==
  [op |-> op, uri |-> uri, value |-> value, updates |-> updates]

\* DocumentStore.__init__
StoreInit ==
  /\ documents = EmptyDict
  /\ storeOp = StoreCall("none", None, {}, [u \in Uris |-> 0])

\* add_document(uri, path, content) on the store of the server
StoreAdd(uri, path, content) ==
  /\ documents' = AddDocument(documents, uri, path, content)
  /\ storeOp' = StoreCall("add", uri, {Document(uri, path, content, 0)},
                          [storeOp.updates EXCEPT ![uri] = 0])

\* update_document_content(uri, new_content) on the store of the server
StoreUpdate(uri, new_content) ==
  /\ storeOp.updates[uri] < MaxUpdates
  /\ \E r \in {UpdateDocumentContent(documents, uri, new_content)} :
       /\ documents' = r.docs
       /\ storeOp' = StoreCall("update", uri, r.value,
                               [storeOp.updates EXCEPT ![uri] = @ + 1])

\* remove_document(uri) on the store of the server
StoreRemove(uri) ==
  /\ documents' = RemoveDocument(documents, uri)
  /\ storeOp' = StoreCall("remove", uri, {}, storeOp.updates)

NotStore == <<indexVars, parserVars, stepVars, doc, earlier, held, cacheVars,
              lruVars, syncVars, outline>>

AddToStore ==
  /\ \E uri \in Uris, content \in DocTexts : StoreAdd(uri, uri, content)
  /\ UNCHANGED NotStore

UpdateInStore ==
  /\ \E uri \in Uris, content \in DocTexts : StoreUpdate(uri, content)
  /\ UNCHANGED NotStore

RemoveFromStore ==
  /\ \E uri \in Uris : StoreRemove(uri)
  /\ UNCHANGED NotStore

-----------------------------------------------------------------------------
(* The document events (src/src/matlab_lsp_server/protocol/document_sync.py): *)
(* the bodies of did_open, did_close and did_change, one step per event,     *)
(* and the debounce task as it sleeps and wakes.  The handlers are           *)
(* coroutines on one event loop and none awaits, so each runs as one step.   *)

\* the files the editor opens
SyncUris == {UriU, UriUV}

\* what parse_content extracts from each text
ExtractionOf(content) == IF content = 1 THEN ResultFunctions ELSE ResultClasses

\* no task has been created: the function has no _task attribute yet
NoTask == [uri |-> None, n |-> 0]

\* the task created by the n-th change of the document uri
Task(uri, n) == [uri |-> uri, n |-> n]

SyncCall(op, uri, content) == [op |-> op, uri |-> uri, content |-> content]

SyncInit ==
  /\ task = NoTask
  /\ sleeping = {}
  /\ published = {}
  /\ syncOp = SyncCall("none", None, 0)

\* did_open, lines 78-85: parse_file reads the file, which holds the text the
\* editor sends, extracts it and updates the index (matlab_parser.py 120-135,
\* an exception is caught there); the handler then calls
\* update_from_parse_result with the same text once more, inside try/except
IndexOnOpen(uri, content) ==
  LET pr == ExtractionOf(content)
      first == UpdateFromParseResult(Table, uri, content, pr)
      second == UpdateFromParseResult(first.table, uri, content, pr)
  IN /\ SetTable(second.table)
     /\ lastOp' = IF second.outcome = "skipped"
                  THEN Call("upsert", uri, content, ResultEmpty, second.outcome, 0)
                  ELSE Call("upsert", uri, content, pr, second.outcome,
                            RemoveCount(first.table, uri))

\* textDocument/didOpen: lines 61-89
DidOpen ==
  /\ \E uri \in SyncUris, content \in DocTexts :
       /\ StoreAdd(uri, uri, content)
       /\ IndexOnOpen(uri, content)
       /\ published' = published \cup {uri}
       /\ syncOp' = SyncCall("open", uri, content)
  /\ UNCHANGED <<task, sleeping>>
  /\ UNCHANGED <<parserVars, stepVars, doc, earlier, held, cacheVars, lruVars, outline>>

\* textDocument/didClose: lines 91-108
DidClose ==
  /\ \E uri \in SyncUris :
       /\ StoreRemove(uri)
       /\ RemoveFile(uri)
       /\ syncOp' = SyncCall("close", uri, 0)
  /\ UNCHANGED <<task, sleeping, published>>
  /\ UNCHANGED <<parserVars, stepVars, doc, earlier, held, cacheVars, lruVars, outline>>

\* _trigger_analysis_with_debounce, lines 177-215: the task kept in the _task
\* attribute of the function is cancelled, whatever file it was created for,
\* and a new one is created and kept
Debounce(uri, n) ==
  /\ sleeping' = (sleeping \ {task}) \cup {Task(uri, n)}
  /\ task' = Task(uri, n)

\* textDocument/didChange for a document that is not in the store: lines
\* 124-128
DidChangeUnknown ==
  /\ \E uri \in SyncUris, content \in DocTexts :
       /\ uri \notin DOMAIN documents
       /\ syncOp' = SyncCall("change", uri, content)
  /\ UNCHANGED <<task, sleeping, published, storeVars>>
  /\ UNCHANGED <<indexVars, parserVars, stepVars, doc, earlier, held, cacheVars,
                 lruVars, outline>>

\* textDocument/didChange with the full new text of an open document: lines
\* 110-148
DidChange ==
  /\ \E uri \in SyncUris, content \in DocTexts :
       /\ uri \in DOMAIN documents
       /\ StoreUpdate(uri, content)
       /\ Debounce(uri, storeOp.updates[uri] + 1)
       /\ published' = published \ {uri}
       /\ syncOp' = SyncCall("change", uri, content)
  /\ UNCHANGED <<indexVars, parserVars, stepVars, doc, earlier, held, cacheVars,
                 lruVars, outline>>

\* debounced_analyze wakes after its delay and analyze_task publishes the
\* diagnostics of its file: lines 197-200 and 210-212
TaskWakes ==
  /\ \E t \in sleeping :
       /\ sleeping' = sleeping \ {t}
       /\ published' = published \cup {t.uri}
  /\ UNCHANGED <<task, syncOp, storeVars>>
  /\ UNCHANGED <<indexVars, parserVars, stepVars, doc, earlier, held, cacheVars,
                 lruVars, outline>>

-----------------------------------------------------------------------------
(* DocumentSymbolHandler (src/src/handlers/document_symbol.py): the outline *)
(* of a file, built from the symbols the index holds for it                 *)

\* Python's recursion limit, scaled to the texts: deeper than any chain of
\* distinct function symbols one text can give
RecursionLimit == MaxLines + 2

\* no outline has been asked for
NoOutline == [state |-> "idle", symbols |-> <<>>]

\* _create_document_symbol: lines 137-182
DocumentSymbol(name, kind, line, children) ==
  [name |-> name, kind |-> kind, line |-> line - 1, children |-> children]

\* _methods_to_document_symbols: lines 184-214
MethodsToDocumentSymbols(methods) ==
  [i \in 1 .. Len(methods) |->
     DocumentSymbol(methods[i].name, KIND_METHOD, methods[i].line, <<>>)]

RECURSIVE FindNestedFunctions(_, _, _)
RECURSIVE FunctionOutlines(_, _, _)
\* the loop over the functions in todo, at the given depth of calls: a symbol
\* for each, with the nested functions of its name as children; a
\* RecursionError raised inside ends the loop
FunctionOutlines(funcs, todo, depth) ==
  IF todo = <<>> THEN [raised |-> FALSE, symbols |-> <<>>]
  ELSE LET func == Head(todo)
           children == FindNestedFunctions(funcs, func.name, depth + 1)
       IN IF children.raised THEN [raised |-> TRUE, symbols |-> <<>>]
          ELSE LET rest == FunctionOutlines(funcs, Tail(todo), depth)
               IN IF rest.raised THEN rest
                  ELSE [raised |-> FALSE,
                        symbols |->
                          <<DocumentSymbol(func.name, KIND_FUNCTION, func.line,
                                           children.symbols)>> \o rest.symbols]

\* _find_nested_functions: lines 216-248; a call deeper than the recursion
\* limit raises RecursionError
FindNestedFunctions(funcs, parent_name, depth) ==
  IF depth > RecursionLimit THEN [raised |-> TRUE, symbols |-> <<>>]
  ELSE LET IsNested(f) == f.scope = parent_name
       IN FunctionOutlines(funcs, SelectSeq(funcs, IsNested), depth)

\* _create_document_symbols: lines 63-135
CreateDocumentSymbols(syms) ==
  LET IsClass(s) == s.kind = KIND_CLASS
      IsFunction(s) == s.kind = KIND_FUNCTION
      IsMethod(s) == s.kind = KIND_METHOD
      IsVariable(s) == s.kind = KIND_VARIABLE
      clss == SelectSeq(syms, IsClass)
      funcs == SelectSeq(syms, IsFunction)
      methods == SelectSeq(syms, IsMethod)
      vars_ == SelectSeq(syms, IsVariable)
      ClassOutline(cls) ==
        LET IsOfClass(m) == m.scope = cls.name
        IN DocumentSymbol(cls.name, KIND_CLASS, cls.line,
                          MethodsToDocumentSymbols(SelectSeq(methods, IsOfClass)))
      NotInClass(f) == ~ \E i \in 1 .. Len(clss) : clss[i].name = f.scope
      IsTopLevel(v) == v.scope = Global
      standalone == FunctionOutlines(funcs, SelectSeq(funcs, NotInClass), 1)
      top == SelectSeq(vars_, IsTopLevel)
  IN IF standalone.raised THEN [raised |-> TRUE, symbols |-> <<>>]
     ELSE [raised |-> FALSE,
           symbols |->
             [i \in 1 .. Len(clss) |-> ClassOutline(clss[i])]
               \o standalone.symbols
               \o [i \in 1 .. Len(top) |->
                     DocumentSymbol(top[i].name, KIND_VARIABLE, top[i].line, <<>>)]]

\* provide_document_symbols(server, file_uri) for the file that was indexed:
\* lines 36-61
ProvideDocumentSymbols ==
  /\ lastOp.op = "upsert"
  /\ outline.state = "idle"
  /\ \E r \in {CreateDocumentSymbols(GetSymbolsByUri(Table, lastOp.uri))} :
       outline' = [state |-> IF r.raised THEN "raised" ELSE "returned",
                   symbols |-> r.symbols]
  /\ UNCHANGED <<indexVars, parserVars, stepVars, doc, earlier, held, cacheVars,
                 lruVars, storeVars, syncVars>>

-----------------------------------------------------------------------------
(* Specifications *)

NoDoc == [raw |-> <<>>, work |-> <<>>, stripped |-> FALSE]

NoEarlier == [kept |-> FALSE, text |-> <<>>, result |-> ResultEmpty]

NoHeld ==
  [op |-> "none", uri |-> None, query |-> <<>>, kind |-> "", items |-> <<>>,
   alias |-> FALSE, fresh |-> FALSE, log |-> NoLog]

Init ==
  /\ IndexInit /\ ParserInit /\ StepInit /\ CacheInit
  /\ LruInit /\ StoreInit /\ SyncInit
  /\ outline = NoOutline
  /\ doc = NoDoc
  /\ earlier = NoEarlier
  /\ held = NoHeld

\* the index under any sequence of upserts and removals
Next == Upsert \/ Remove

Spec == Init /\ [][Next]_vars

\* the extractor run on every text of at most MaxLines lines
NextParse ==
  \/ ParseFunction
  \/ ParseEnd
  \/ ParseVariable
  \/ ParseSkipped
  \/ ParseClassdef
  \/ ParseProperty

SpecParse == Init /\ [][NextParse]_vars

\* a file extracted and indexed
NextFile == ExtractLine \/ IndexText \/ ReadFails

SpecFile == Init /\ [][NextFile]_vars

\* one parser instance, one extraction after another
NextReuse == ReuseLine \/ BeginExtraction

SpecReuse == Init /\ [][NextReuse]_vars

\* texts with block comments, extracted
NextBlocks == WriteLine \/ StripBlocks \/ ScanWork

SpecBlocks == Init /\ [][NextBlocks]_vars

\* files indexed and removed, then queried
NextQuery == InsertFile \/ DropFile \/ QueryFile \/ ChangeReturned \/ Search

SpecQuery == Init /\ [][NextQuery]_vars

\* the LRU cache under any sequence of calls
NextLru == NewLru \/ GetLru \/ PutLru

SpecLru == Init /\ [][NextLru]_vars

\* the document store under any sequence of calls
NextStore == AddToStore \/ UpdateInStore \/ RemoveFromStore

SpecStore == Init /\ [][NextStore]_vars

\* documents opened, changed and closed in the editor
NextSync == DidOpen \/ DidChange \/ DidChangeUnknown \/ DidClose \/ TaskWakes

SpecSync == Init /\ [][NextSync]_vars

\* a text is extracted and indexed, then its outline is asked for
NextOutline == ExtractLine \/ IndexText \/ ProvideDocumentSymbols

SpecOutline == Init /\ [][NextOutline]_vars

\* the cache under any sequence of calls, as the clock moves on
NextCache ==
  \/ Get
  \/ Set
  \/ Invalidate
  \/ InvalidatePrefix
  \/ Clear
  \/ Tick

SpecCache == Init /\ [][NextCache]_vars

\* updates taken statement by statement, with a reader on another thread
NextSteps ==
  \/ BeginUpdate
  \/ StepRemove
  \/ StepHash
  \/ StepInsert
  \/ StepReturn
  \/ ReadDuringUpdate

SpecSteps == Init /\ [][NextSteps]_vars

-----------------------------------------------------------------------------
(* Properties of the index *)

Range(seq) == {seq[i] : i \in 1 .. Len(seq)}

Count(seq, x) == Cardinality({i \in 1 .. Len(seq) : seq[i] = x})

\* the symbols of file uri among those of a list
OfFile(seq, uri) == SelectSeq(seq, LAMBDA s : s.uri = uri)

\* the digest of content is the hash stored for uri
DigestStored(uri, content) ==
  uri \in DOMAIN file_hashes /\ file_hashes[uri] = HashContent(content)

StoredHash(T, uri) ==
  IF uri \in DOMAIN T.file_hashes THEN {T.file_hashes[uri]} ELSE {}

Filters == {None} \cup Uris

\* s can have been created from extraction result pr for file uri
DerivedFrom(s, uri, pr) ==
  /\ s.uri = uri
  /\ \/ /\ s.kind = KIND_FUNCTION
        /\ \E i \in 1 .. Len(pr.functions) :
             pr.functions[i].name = s.name /\ pr.functions[i].line = s.line
     \/ /\ s.kind = KIND_CLASS
        /\ \E i \in 1 .. Len(pr.classes) :
             pr.classes[i].name = s.name /\ pr.classes[i].line = s.line
     \/ /\ s.kind = KIND_METHOD
        /\ \E i \in 1 .. Len(pr.classes) :
             /\ s.scope = pr.classes[i].name
             /\ \E j \in 1 .. Len(pr.classes[i].methods) :
                  pr.classes[i].methods[j].name = s.name
     \/ /\ s.kind = KIND_PROPERTY
        /\ \E i \in 1 .. Len(pr.classes) :
             /\ s.scope = pr.classes[i].name
             /\ \E j \in 1 .. Len(pr.classes[i].properties) :
                  pr.classes[i].properties[j] = s.name
     \/ /\ s.kind = KIND_VARIABLE
        /\ \E i \in 1 .. Len(pr.variables) : pr.variables[i].name = s.name

\* C1: an UpsertFile whose content digest equals the hash stored for the file
\* changes nothing: the file's symbols, all symbols, the symbol count and the
\* stored hashes are the same after the call as before it, whatever result is
\* passed.
C1_SkipChangesNothing ==
  [][(lastOp'.op = "upsert" /\ DigestStored(lastOp'.uri, lastOp'.content))
       => /\ GetSymbolsByUri(Table', lastOp'.uri) = GetSymbolsByUri(Table, lastOp'.uri)
          /\ GetAllSymbols(Table') = GetAllSymbols(Table)
          /\ Len(GetAllSymbols(Table')) = Len(GetAllSymbols(Table))
          /\ file_hashes' = file_hashes
          /\ uri_to_symbols' = uri_to_symbols]_vars

\* an upsert was skipped for a file that has symbols
C1_Witness ==
  /\ lastOp.op = "upsert"
  /\ lastOp.outcome = "skipped"
  /\ GetSymbolsByUri(Table, lastOp.uri) # <<>>

\* C2: after an accepted UpsertFile(id, c2, r2) (digest of c2 differs from the
\* stored hash) SymbolsInFile(id) and FindByName restricted to id hold only
\* symbols created from r2.
C2_OnlyNewResult ==
  [][(lastOp'.op = "upsert" /\ ~DigestStored(lastOp'.uri, lastOp'.content))
       => /\ \A s \in Range(GetSymbolsByUri(Table', lastOp'.uri)) :
               DerivedFrom(s, lastOp'.uri, lastOp'.result)
          /\ \A q \in Queries :
               \A s \in Range(SearchSymbols(Table', q, lastOp'.uri, "")) :
                 DerivedFrom(s, lastOp'.uri, lastOp'.result)]_vars

\* an accepted upsert replaced symbols of an earlier one by new ones
C2_Witness ==
  /\ lastOp.op = "upsert"
  /\ lastOp.outcome # "skipped"
  /\ lastOp.removed > 0
  /\ GetSymbolsByUri(Table, lastOp.uri) # <<>>

\* C3: no call on the index raises, for every file id and every extraction
\* result, with any number (zero included) of functions, classes, properties
\* and variables.
C3_NeverRaises == lastOp.outcome # "raised"

\* C4: after RemoveFile(id) SymbolsInFile(id) is empty and neither FindByName
\* (any query, with or without a file filter) nor AllSymbols returns a symbol
\* of id; RemoveFile on an id without entries changes nothing.
C4_RemovedFileIsGone ==
  [][lastOp'.op = "remove"
       => /\ GetSymbolsByUri(Table', lastOp'.uri) = <<>>
          /\ \A q \in Queries, f \in Filters :
               OfFile(SearchSymbols(Table', q, f, ""), lastOp'.uri) = <<>>
          /\ OfFile(GetAllSymbols(Table'), lastOp'.uri) = <<>>
          /\ (lastOp'.uri \notin DOMAIN uri_to_symbols => Table' = Table)]_vars

\* a removal that deleted symbols while another file keeps its own
C4_Witness ==
  /\ lastOp.op = "remove"
  /\ lastOp.removed > 0
  /\ GetAllSymbols(Table) # <<>>

\* C5: after RemoveFile(id) no hash is stored for id, whatever number of
\* symbols the file's accepted extraction produced, so that a following
\* UpsertFile of id is never skipped.
C5_RemoveDropsHash == lastOp.op = "remove" => lastOp.uri \notin DOMAIN file_hashes

\* C6: UpsertFile(a, ...) and RemoveFile(a) leave SymbolsInFile(b), FindByName
\* restricted to b, the symbols of b in AllSymbols and the stored hash of b
\* unchanged for every file b other than a.
C6_OtherFilesUntouched ==
  [][\A b \in Uris \ {lastOp'.uri} :
       /\ GetSymbolsByUri(Table', b) = GetSymbolsByUri(Table, b)
       /\ \A q \in Queries :
            SearchSymbols(Table', q, b, "") = SearchSymbols(Table, q, b, "")
       /\ OfFile(GetAllSymbols(Table'), b) = OfFile(GetAllSymbols(Table), b)
       /\ StoredHash(Table', b) = StoredHash(Table, b)]_vars

RECURSIVE CountInFiles(_, _, _)
\* how often x occurs in the lists SymbolsInFile(f) of the files f in S
CountInFiles(T, S, x) ==
  IF S = {} THEN 0
  ELSE LET f == CHOOSE u \in S : TRUE
       IN Count(GetSymbolsByUri(T, f), x) + CountInFiles(T, S \ {f}, x)

\* C7: AllSymbols() returns exactly the symbols that SymbolsInFile(f) returns
\* over all files f, as a multiset.
C7_IndexesAgree ==
  LET all == GetAllSymbols(Table)
      known == Range(all) \cup UNION {Range(GetSymbolsByUri(Table, f)) : f \in Uris}
  IN \A x \in known : Count(all, x) = CountInFiles(Table, Uris, x)

\* the last call was an upsert that passed the change check
Accepted == lastOp.op = "upsert" /\ lastOp.outcome # "skipped"

\* SymbolsInFile of the file of the last call
InFile == GetSymbolsByUri(Table, lastOp.uri)

\* how many symbols of the file of the last call have this kind, name and scope
Inserted(kind, name, scope) ==
  Cardinality({i \in 1 .. Len(InFile) :
                 /\ InFile[i].kind = kind
                 /\ InFile[i].name = name
                 /\ InFile[i].scope = scope})

\* C13: an accepted upsert inserts, for every class record of the result, one
\* class symbol with scope "global", one method symbol with scope = the class
\* name for each of its methods and one property symbol with scope = the class
\* name for each of its property names; with several classes, for each of them.
C13_ClassMembersInserted ==
  Accepted =>
    \A i \in 1 .. Len(lastOp.result.classes) :
      LET cls == lastOp.result.classes[i]
      IN /\ Inserted(KIND_CLASS, cls.name, Global) = 1
         /\ \A j \in 1 .. Len(cls.methods) :
              Inserted(KIND_METHOD, cls.methods[j].name, cls.name) = 1
         /\ \A j \in 1 .. Len(cls.properties) :
              Inserted(KIND_PROPERTY, cls.properties[j], cls.name) = 1

\* C14: an accepted upsert inserts one symbol of kind variable, with scope
\* "global", for every variable record of the result.
C14_VariablesInserted ==
  Accepted =>
    \A i \in 1 .. Len(lastOp.result.variables) :
      Inserted(KIND_VARIABLE, lastOp.result.variables[i].name, Global) = 1

\* the symbols of kind function of the file of the last call, in list order
FunctionsInFile == SelectSeq(InFile, LAMBDA s : s.kind = KIND_FUNCTION)

\* C16: an accepted upsert inserts exactly one symbol of kind function per
\* function record of the result, in the order of the result, with
\* is_global = not is_nested and scope = the record's parent_function when it
\* has one, else "global".
C16_FunctionPerRecord ==
  Accepted =>
    LET fs == lastOp.result.functions
    IN /\ Len(FunctionsInFile) = Len(fs)
       /\ \A i \in 1 .. Len(fs) :
            /\ FunctionsInFile[i].name = fs[i].name
            /\ FunctionsInFile[i].is_global = ~fs[i].is_nested
            /\ FunctionsInFile[i].scope =
                 (IF fs[i].parent_function # None THEN fs[i].parent_function ELSE Global)

\* an accepted upsert of a result with a top-level and a nested function
C16_Witness ==
  /\ Accepted
  /\ \E i, j \in 1 .. Len(lastOp.result.functions) :
       lastOp.result.functions[i].is_nested /\ ~lastOp.result.functions[j].is_nested
  /\ Len(FunctionsInFile) = 2

\* C34: UpsertFile is all or nothing: after a call that does not complete
\* normally, SymbolsInFile(id) and the hash stored for id are what they were
\* before the call, so the old symbols are still served and a retry with the
\* same content is not skipped.
C34_AllOrNothing ==
  [][(lastOp'.op = "upsert" /\ lastOp'.outcome = "raised")
       => /\ GetSymbolsByUri(Table', lastOp'.uri) = GetSymbolsByUri(Table, lastOp'.uri)
          /\ StoredHash(Table', lastOp'.uri) = StoredHash(Table, lastOp'.uri)]_vars

-----------------------------------------------------------------------------
(* Properties of the extractor *)

\* first word of a line
FirstWord(line) == SubSeq(line, SkipSpace(line, 1), WordEnd(line, SkipSpace(line, 1)) - 1)

BlockWords == {KwIf, <<"f", "o", "r">>, <<"w", "h", "i", "l", "e">>}

MemberBlockWords == {KwProperties, <<"m", "e", "t", "h", "o", "d", "s">>}

\* The block structure of a MATLAB text, read off the text alone: the frames
\* that are open after its lines, innermost last.  A function header, a
\* classdef line, a control-flow line and, inside a class, a member block
\* line each open a frame; an end line closes the innermost one.
RECURSIVE OpenFrames(_)
OpenFrames(t) ==
  IF t = <<>> THEN <<>>
  ELSE LET before == OpenFrames(SubSeq(t, 1, Len(t) - 1))
           sc == Scan[Last(t)][1]
           word == FirstWord(Lines[Last(t)])
       IN IF sc.class_match.ok
          THEN Append(before, [tag |-> "class", name |-> sc.class_match.info.name])
          ELSE IF sc.function_match.ok
          THEN Append(before, [tag |-> "function", name |-> sc.function_match.info.name])
          ELSE IF sc.is_end
          THEN IF before = <<>> THEN <<>> ELSE SubSeq(before, 1, Len(before) - 1)
          ELSE IF word \in BlockWords
          THEN Append(before, [tag |-> "block", name |-> word])
          ELSE IF /\ word \in MemberBlockWords
                  /\ before # <<>>
                  /\ Last(before).tag = "class"
          THEN Append(before, [tag |-> "block", name |-> word])
          ELSE before

OpenFunctions(t) == SelectSeq(OpenFrames(t), LAMBDA fr : fr.tag = "function")

ClassOpen(t) == \E i \in 1 .. Len(OpenFrames(t)) : OpenFrames(t)[i].tag = "class"

\* the line read last is a function header
HeaderRead == text # <<>> /\ Scan[Last(text)][1].function_match.ok

\* the text before the line read last
Before == SubSeq(text, 1, Len(text) - 1)

\* C9: a function header met while one or more functions are open and no
\* class is open yields a record with is_nested = true and parent_function =
\* the name of the innermost function still open, also for the second and
\* later nested functions of one outer function.
C9_NestedParent ==
  (HeaderRead /\ OpenFunctions(Before) # <<>> /\ ~ClassOpen(Before))
    => /\ Last(functions).is_nested
       /\ Last(functions).parent_function = Last(OpenFunctions(Before)).name

\* C10: a function header met when every earlier function has been closed
\* (nothing open, no class) yields a record with is_nested = false and no
\* parent_function, and adds no entry to function_tree.
C10_TopLevelAfterEnd ==
  [][(Len(text') = Len(text) + 1
        /\ Scan[Last(text')][1].function_match.ok
        /\ OpenFrames(text) = <<>>)
       => /\ ~Last(functions').is_nested
          /\ Last(functions').parent_function = None
          /\ function_tree' = function_tree]_vars

\* the nesting stack of the extraction algorithm, read off the text alone:
\* a classdef line and a function header each push a frame, every end line
\* pops one
RECURSIVE NestingStack(_)
NestingStack(t) ==
  IF t = <<>> THEN <<>>
  ELSE LET before == NestingStack(SubSeq(t, 1, Len(t) - 1))
           sc == Scan[Last(t)][1]
       IN IF sc.class_match.ok
          THEN Append(before, [tag |-> "class", name |-> sc.class_match.info.name])
          ELSE IF sc.function_match.ok
          THEN Append(before, [tag |-> "function", name |-> sc.function_match.info.name])
          ELSE IF sc.is_end /\ before # <<>>
          THEN SubSeq(before, 1, Len(before) - 1)
          ELSE before

\* a class frame is on the nesting stack of t
ClassOnStack(t) == \E i \in 1 .. Len(NestingStack(t)) : NestingStack(t)[i].tag = "class"

\* the step reads an end line
EndRead == Len(text') = Len(text) + 1 /\ Scan[Last(text')][1].is_end

\* C11: an end marker met while a class is open pops one frame: it lowers the
\* nesting level by one, and once the end that closes the classdef has been
\* read the current class is null again.
C11_EndInClassPops ==
  [][(EndRead /\ ClassOnStack(text))
       => /\ nesting_level' = nesting_level - 1
          /\ ~ClassOnStack(text') => current_class' = 0]_vars

\* the step reads a line whose first word is end
EndMarkerRead == Len(text') = Len(text) + 1 /\ FirstWord(Lines[Last(text')]) = KwEnd

\* C37: during extraction the nesting level is never negative: an end
\* marker met at nesting level 0 changes neither the nesting level nor the
\* current function or current class, adds nothing to the result, and
\* extraction goes on with the next line.
C37_UnmatchedEnd ==
  [][/\ nesting_level' >= 0
     /\ (EndMarkerRead /\ nesting_level = 0)
          => /\ nesting_level' = 0
             /\ current_function' = current_function
             /\ current_class' = current_class
             /\ functions' = functions
             /\ classes' = classes
             /\ variables' = variables]_vars

\* an end was met at level 0 as the first line, and the function declared on
\* the next line was extracted
C37_Witness ==
  /\ Len(text) = 2
  /\ FirstWord(Lines[text[1]]) = KwEnd
  /\ Len(functions) = 1
  /\ nesting_level = 1

KwMethods == <<"m", "e", "t", "h", "o", "d", "s">>

\* a line that holds one identifier and nothing else, and is no block word
IsBareIdentifier(line) ==
  /\ Strip(line) # <<>>
  /\ \A i \in 1 .. Len(Strip(line)) : IsWordChar(Strip(line)[i])
  /\ Strip(line) \notin {KwEnd, KwProperties, KwMethods}

RECURSIVE Collecting(_)
\* the lines of t end inside a property block: a property block marker was
\* read while a class is open, and only bare-identifier lines since
Collecting(t) ==
  IF t = <<>> THEN FALSE
  ELSE LET before == SubSeq(t, 1, Len(t) - 1)
       IN \/ Strip(Lines[Last(t)]) = KwProperties /\ ClassOnStack(before)
          \/ Collecting(before) /\ IsBareIdentifier(Lines[Last(t)])

RECURSIVE PropertyLines(_)
\* the property names of t, in text order
PropertyLines(t) ==
  IF t = <<>> THEN <<>>
  ELSE LET before == SubSeq(t, 1, Len(t) - 1)
       IN IF Collecting(before) /\ IsBareIdentifier(Lines[Last(t)])
          THEN Append(PropertyLines(before), Strip(Lines[Last(t)]))
          ELSE PropertyLines(before)

RECURSIVE AllProperties(_)
\* the properties lists of the class records, one after the other
AllProperties(clss) ==
  IF clss = <<>> THEN <<>> ELSE Head(clss).properties \o AllProperties(Tail(clss))

\* C12: the properties lists of the class records hold exactly the
\* bare-identifier lines that follow a property block marker, up to the next
\* structural line; the marker line itself, end lines, methods lines and
\* statements are not recorded as properties.
C12_OnlyPropertyLines == AllProperties(classes) = PropertyLines(text)

\* the line is a function header that declares outputs
DeclaresOutputs(line) ==
  /\ At(line, SkipSpace(line, 1), KwFunction)
  /\ Find(line, <<"=">>) > 0
  /\ Find(line, <<"(">>) > Find(line, <<"=">>)

\* the outputs a function header declares, in order: the identifiers of the
\* bracketed list, or the single identifier before the = sign
DeclaredOutputs(line) ==
  LET i == SkipSpace(line, SkipSpace(line, 1) + Len(KwFunction))
  IN IF CharAt(line, i, "[")
     THEN ArgList(SubSeq(line, i + 1, Find(line, <<"]">>) - 1))
     ELSE <<SubSeq(line, i, WordEnd(line, i) - 1)>>

\* C18: a function header is recognised with either form of output list: a
\* bracketed list of several outputs yields a record whose output_args are the
\* listed identifiers in order, a single identifier output yields that one.
C18_OutputForms ==
  (text # <<>> /\ DeclaresOutputs(Lines[Last(text)]))
    => /\ functions # <<>>
       /\ Last(functions).line = Len(text)
       /\ Last(functions).output_args = DeclaredOutputs(Lines[Last(text)])

\* the line holds code followed by a % comment
HasTrailingComment(line) ==
  /\ Find(line, <<"%">>) > 1
  /\ Strip(SubSeq(line, 1, Find(line, <<"%">>) - 1)) # <<>>
  /\ Strip(SubSeq(line, Find(line, <<"%">>) + 1, Len(line))) # <<>>

\* the code before the comment marker
CodeBefore(line) == SubSeq(line, 1, Find(line, <<"%">>) - 1)

\* no classdef line in the text
NoClassLine(t) == \A i \in 1 .. Len(t) : ~Scan[t[i]][1].class_match.ok

\* C19: when a line holds code followed by a line comment, the comment is
\* recorded and the code before the marker is matched as if the comment were
\* absent: a function header, an end marker or a variable declaration with a
\* trailing % comment changes the extractor state like the bare line.
C19_CodeBeforeComment ==
  [][\A k \in LineIds :
       (text' = Append(text, k) /\ HasTrailingComment(Lines[k]) /\ NoClassLine(text))
         => LET code == CodeBefore(Lines[k])
            IN /\ Len(comments') = Len(comments) + 1
               /\ (ExtractEnd(code) /\ nesting_level > 0)
                    => nesting_level' = nesting_level - 1
               /\ FunctionMatch(code).ok
                    => /\ Len(functions') = Len(functions) + 1
                       /\ nesting_level' = nesting_level + 1
               /\ (/\ ExtractVariable(code, 1).ok
                   /\ ~ExtractEnd(code)
                   /\ nesting_level = 0)
                    => Len(variables') = Len(variables) + 1]_vars

\* the line declares a variable with this modifier
HasModifier(line, kw) ==
  LET i == SkipSpace(line, 1)
      j == SkipSpace(line, i + Len(kw))
  IN At(line, i, kw) /\ j > i + Len(kw) /\ WordEnd(line, j) > j

\* C20: a variable record is recorded only if, when its line is processed,
\* the nesting level is 0 or the declaration carries the global or persistent
\* modifier; is_global and is_persistent are set exactly when the respective
\* modifier is present.
C20_VariableKept ==
  [][Len(variables') = Len(variables) + 1
       => LET line == Lines[Last(text')]
              v == Last(variables')
          IN /\ \/ NestingStack(text) = <<>>
                \/ HasModifier(line, KwGlobal)
                \/ HasModifier(line, KwPersistent)
             /\ v.is_global = HasModifier(line, KwGlobal)
             /\ v.is_persistent = HasModifier(line, KwPersistent)]_vars

\* a plain declaration at top level, then a global and a persistent one
\* inside a function, have been recorded
C20_Witness ==
  /\ Len(variables) = 3
  /\ ~variables[1].is_global /\ ~variables[1].is_persistent
  /\ variables[2].is_global /\ ~variables[2].is_persistent
  /\ variables[3].is_persistent /\ ~variables[3].is_global
  /\ nesting_level > 0
  /\ variables[3].line = Len(text)

\* an assignment without the global or persistent modifier
PlainAssignment(line) ==
  /\ Find(line, <<"=">>) # 0
  /\ FirstWord(line) \notin {KwFunction, KwGlobal, KwPersistent}

\* C38: an assignment without global or persistent modifier that sits inside
\* a function body, after the header and before the end that closes the
\* function, is never recorded as a variable, also when control-flow blocks
\* (if ... end) stand in the body before it.
C38_BodyAssignmentSkipped ==
  [][(/\ Len(text') = Len(text) + 1
      /\ PlainAssignment(Lines[Last(text')])
      /\ OpenFunctions(text) # <<>>)
       => variables' = variables]_vars

\* the names of the function records whose parent_function is p, in order
ChildrenOf(p) ==
  LET kids == SelectSeq(functions, LAMBDA f : f.parent_function = p)
  IN [i \in 1 .. Len(kids) |-> kids[i].name]

\* C22: in every extraction result, function_tree[p] lists, in source order,
\* exactly the names of the function records whose parent_function is p, and
\* a function record has is_nested = true exactly when its parent_function
\* is set.
C22_TreeMatchesParents ==
  /\ \A p \in DOMAIN function_tree : function_tree[p] = ChildrenOf(p)
  /\ \A i \in 1 .. Len(functions) :
       /\ functions[i].parent_function # None
            => functions[i].parent_function \in DOMAIN function_tree
       /\ functions[i].is_nested <=> functions[i].parent_function # None

\* some function has two children in the tree, and some function has none
C22_Witness ==
  /\ \E p \in DOMAIN function_tree : Len(function_tree[p]) >= 2
  /\ \E i \in 1 .. Len(functions) : ~functions[i].is_nested

-----------------------------------------------------------------------------
(* Properties of a file extracted and indexed *)

\* the text has been extracted and its result handed to the index
Indexed == lastOp.op = "upsert"

\* the symbols of the file that stand for the function declared on line i
SymbolsOfLine(i) ==
  {s \in Range(InFile) :
     s.line = i /\ s.name = Scan[text[i]][1].function_match.info.name}

\* C15: in a text that is extracted and then upserted, a function declared
\* inside a classdef body is indexed with scope = the name of the enclosing
\* class and is not flagged is_global; a nested function is indexed with
\* scope = the name of its enclosing function.
C15_MemberScope ==
  Indexed =>
    \A i \in 1 .. Len(text) :
      LET stack == NestingStack(SubSeq(text, 1, i - 1))
      IN (Scan[text[i]][1].function_match.ok /\ stack # <<>>)
           => \E s \in SymbolsOfLine(i) :
                /\ s.scope = Last(stack).name
                /\ Last(stack).tag = "class" => ~s.is_global

\* a line that is a statement: neither a header, nor an end, nor a comment
IsStatement(k) ==
  /\ Scan[k][1].var_match.ok
  /\ ~Scan[k][1].comment.ok
  /\ ~Scan[k][1].is_end

\* the text is "function y = g(x, z)", a body of statements, and end
SimpleFunctionText ==
  /\ Len(text) >= 3
  /\ Lines[text[1]] = KwFunction \o <<" ", "y", " ", "=", " ", "g", "(", "x", ",", " ", "z", ")">>
  /\ Lines[Last(text)] = KwEnd
  /\ \A i \in 2 .. (Len(text) - 1) : IsStatement(text[i])

\* C17: for a text that holds one function definition with a single output, a
\* name and a parenthesised input list, followed by a body and end, extraction
\* yields exactly one function record with that name, the inputs in source
\* order and the one output; upserting that result leaves exactly one symbol
\* of kind function, with that name, in the file's symbols.
C17_SimpleFunction ==
  (Indexed /\ SimpleFunctionText)
    => /\ Len(functions) = 1
       /\ functions[1].name = <<"g">>
       /\ functions[1].input_args = << <<"x">>, <<"z">> >>
       /\ functions[1].output_args = << <<"y">> >>
       /\ Len(FunctionsInFile) = 1
       /\ FunctionsInFile[1].name = <<"g">>

\* such a text, with a one-line body, has been extracted and indexed
C17_Witness == Indexed /\ SimpleFunctionText /\ Len(text) = 3 /\ Len(InFile) = 1

\* C23: when the source file cannot be read, parse_file does not raise: it
\* returns a result whose errors list has exactly one entry and whose
\* functions, variables, classes and comments are empty, and the symbols and
\* stored hashes of every file are left unchanged.
C23_UnreadableFile ==
  [][lastOp'.op = "parse_file"
       => /\ lastOp'.outcome # "raised"
          /\ Len(lastOp'.result.errors) = 1
          /\ lastOp'.result.functions = <<>>
          /\ lastOp'.result.variables = <<>>
          /\ lastOp'.result.classes = <<>>
          /\ lastOp'.result.comments = <<>>
          /\ symbols' = symbols
          /\ uri_to_symbols' = uri_to_symbols
          /\ file_hashes' = file_hashes]_vars

\* a read failed after a file with symbols had been indexed
C23_Witness ==
  /\ lastOp.op = "parse_file"
  /\ symbols # <<>>
  /\ DOMAIN file_hashes # {}

-----------------------------------------------------------------------------
(* Properties of the block-comment pass *)

BlockOpen == <<"%", "{">>

\* line k holds the opening marker, the closing marker
Opens(k) == Find(AllLines[k], BlockOpen) # 0

Closes(k) == Find(AllLines[k], BlockClose) # 0

RECURSIVE BlockSpans(_, _)
\* the paired block comments of the lines t from line i on, as pairs of first
\* and last line: an opening marker is paired with the nearest closing marker
\* after it, on the same line or on a later one; a marker without a partner
\* is no block comment
BlockSpans(t, i) ==
  IF i > Len(t) THEN <<>>
  ELSE IF Opens(t[i]) /\ Closes(t[i]) THEN <<<<i, i>>>> \o BlockSpans(t, i + 1)
  ELSE IF Opens(t[i]) /\ \E j \in (i + 1) .. Len(t) : Closes(t[j])
  THEN LET j == CHOOSE l \in (i + 1) .. Len(t) :
                  Closes(t[l]) /\ \A m \in (i + 1) .. (l - 1) : ~Closes(t[m])
       IN <<<<i, j>>>> \o BlockSpans(t, j + 1)
  ELSE BlockSpans(t, i + 1)

\* the lines of t that lie in no block comment and begin with the word w
OutsideWith(t, w) ==
  LET spans == BlockSpans(t, 1)
  IN {i \in 1 .. Len(t) :
        /\ \A n \in 1 .. Len(spans) : i < spans[n][1] \/ i > spans[n][2]
        /\ FirstWord(AllLines[t[i]]) = w}

BlockRecords == SelectSeq(comments, LAMBDA c : c.is_block)

\* the whole working copy has been scanned
Scanned_All == doc.stripped /\ Len(text) = Len(doc.work)

C24_SameTextSameResult ==
  (earlier.kept /\ earlier.text = text) => Extracted = earlier.result

\* a text with a function and a class has been extracted a second time
C24_Witness ==
  /\ earlier.kept
  /\ earlier.text = text
  /\ functions # <<>>
  /\ classes # <<>>

\* the line fields of the records of seq
LinesOf(seq) == {seq[n].line : n \in 1 .. Len(seq)}

\* C39: the line stored in every function, class and variable record is the
\* 1-based number of the declaration's line in the original text, also when
\* a block comment of several lines stands before the declaration.
C39_OriginalLineNumbers ==
  Scanned_All =>
    /\ LinesOf(functions) = OutsideWith(doc.raw, KwFunction)
    /\ LinesOf(classes) = OutsideWith(doc.raw, KwClassdef)
    /\ LinesOf(variables) \subseteq OutsideWith(doc.raw, <<"x">>)

-----------------------------------------------------------------------------
(* Properties of the queries *)

\* C25: SymbolsInFile(id) returns the symbols of id in the order in which
\* they were inserted, and the list it returns is the caller's own: whatever
\* the caller does to it, a query on any file still returns what was inserted
\* for that file.
C25_InsertionOrder ==
  /\ (held.op = "by_uri" /\ held.fresh) => held.items = held.log[held.uri]
  /\ \A uri \in Uris : ReturnedList(Table, uri).items = held.log[uri]

\* the caller has changed a list of two or more symbols that it got
C25_Witness ==
  /\ held.op = "by_uri"
  /\ ~held.fresh
  /\ Len(held.log[held.uri]) >= 2
  /\ held.items # held.log[held.uri]

Letters == <<"c", "d", "f">>

Capitals == <<"C", "D", "F">>

\* the same letter, in either case
SameLetter(a, b) ==
  a = b \/ \E i \in 1 .. Len(Letters) : {a, b} = {Letters[i], Capitals[i]}

\* q occurs in name, letter by letter, whatever the case
NameHas(name, q) ==
  \E i \in 0 .. (Len(name) - Len(q)) :
    \A j \in 1 .. Len(q) : SameLetter(name[i + j], q[j])

\* the symbols of AllSymbols() that a search has to return
Wanted(T, query, uri, kind) ==
  SelectSeq(GetAllSymbols(T),
            LAMBDA s : /\ NameHas(s.name, query)
                       /\ uri # None => s.uri = uri
                       /\ kind # "" => s.kind = kind)

\* C26: FindByName(query, file?, kind?) returns exactly the symbols of
\* AllSymbols() whose name contains the query, compared without regard to
\* case, whose file is the given one when a file is given and whose kind is
\* the given one when a kind is given; the call changes no index state.
C26_FindByName ==
  [][(held'.op = "search" /\ held' # held)
       => /\ held'.items = Wanted(Table, held'.query, held'.uri, held'.kind)
          /\ Table' = Table]_vars

\* a search for f among the functions of all files has returned f and F and
\* left other symbols out
C26_Witness ==
  /\ held.op = "search"
  /\ held.query = <<"f">>
  /\ held.uri = None
  /\ held.kind = KIND_FUNCTION
  /\ \E i, j \in 1 .. Len(held.items) :
       held.items[i].name = <<"f">> /\ held.items[j].name = <<"F">>
  /\ Len(held.items) < Len(GetAllSymbols(Table))

-----------------------------------------------------------------------------
(* Properties of the cache *)

\* the step is a get call
GetCalled == cacheOp'.op = "get" /\ tally'.gets = tally.gets + 1

\* the age, at the present clock reading, of the entry stored under key
Age(key) == now - cache[key].timestamp

Outlived(key) == key \in DOMAIN cache /\ Age(key) > cache[key].ttl

\* C28: a get on an expired entry returns a miss, removes the entry and
\* counts one miss and one eviction; an expired entry that is never read stays
\* stored as the clock moves on, and is still removed and counted by
\* invalidate and invalidate_prefix.
C28_LazyExpiry ==
  [][\A key \in CacheKeys :
       /\ (GetCalled /\ cacheOp'.key = key /\ Outlived(key))
            => /\ cacheOp'.value = Miss
               /\ key \notin DOMAIN cache'
               /\ stats' = [stats EXCEPT !.misses = @ + 1, !.evictions = @ + 1]
       /\ (now' # now /\ Outlived(key)) => (key \in DOMAIN cache' /\ cache'[key] = cache[key])
       /\ (/\ tally'.calls = tally.calls + 1
           /\ cacheOp'.op = "invalidate"
           /\ cacheOp'.key = key
           /\ Outlived(key))
            => /\ key \notin DOMAIN cache'
               /\ cacheOp'.existed
               /\ stats'.evictions = stats.evictions + 1
       /\ (/\ tally'.calls = tally.calls + 1
           /\ cacheOp'.op = "invalidate_prefix"
           /\ cacheOp'.key = key
           /\ Outlived(key))
            => /\ key \notin DOMAIN cache'
               /\ cacheOp'.count >= 1
               /\ stats'.evictions = stats.evictions + cacheOp'.count]_vars

\* the only call so far was a get, on an entry that had expired
C28_Witness ==
  /\ cacheOp.op = "get"
  /\ cacheOp.value = Miss
  /\ tally = [gets |-> 1, served |-> 0, removed |-> 1, calls |-> 1]
  /\ stats = [hits |-> 0, misses |-> 1, evictions |-> 1]

\* C29: after any sequence of calls, hits + misses is the number of get
\* calls, hits is the number of gets that returned a stored unexpired value,
\* evictions is the number of entries removed by invalidate, invalidate_prefix
\* and expiry on get, and no counter ever decreases.
C29_CountersAgree ==
  [][/\ stats'.hits + stats'.misses = tally'.gets
     /\ stats'.hits = tally'.served
     /\ stats'.evictions = tally'.removed
     /\ stats'.hits >= stats.hits
     /\ stats'.misses >= stats.misses
     /\ stats'.evictions >= stats.evictions]_vars

\* a hit, a miss and an eviction have all been counted
C29_Witness == stats.hits >= 1 /\ stats.misses >= 1 /\ stats.evictions >= 1

\* p is an initial part of key
InitialPart(p, key) == Len(p) =< Len(key) /\ \A i \in 1 .. Len(p) : key[i] = p[i]

\* C30: invalidate_prefix(p) removes exactly the stored entries whose key
\* starts with p, returns the number of entries it removed, and leaves the
\* value and the expiry of every other entry unchanged.
C30_PrefixRemoval ==
  [][(tally'.calls = tally.calls + 1 /\ cacheOp'.op = "invalidate_prefix")
       => LET gone == {k \in DOMAIN cache : InitialPart(cacheOp'.key, k)}
          IN /\ DOMAIN cache' = (DOMAIN cache) \ gone
             /\ cacheOp'.count = Cardinality(gone)
             /\ \A k \in DOMAIN cache' : cache'[k] = cache[k]]_vars

\* invalidate_prefix("ab") removed one entry and left the entry of "a"
C30_Witness ==
  /\ cacheOp.op = "invalidate_prefix"
  /\ cacheOp.key = <<"a", "b">>
  /\ cacheOp.count = 1
  /\ DOMAIN cache = {<<"a">>}

\* C40: for ttl > 0 an entry counts as expired as soon as its ttl has
\* elapsed: a get issued when the age of the entry equals its ttl exactly
\* returns a miss and removes the entry.
C40_ExpiredAtTtl ==
  [][\A key \in CacheKeys :
       (/\ GetCalled
        /\ cacheOp'.key = key
        /\ key \in DOMAIN cache
        /\ cache[key].ttl > 0
        /\ Age(key) = cache[key].ttl)
         => (cacheOp'.value = Miss /\ key \notin DOMAIN cache')]_vars

-----------------------------------------------------------------------------
(* Properties of the LRU cache *)

\* a get or a put has just been made on the LRU cache
LruCalled == lruOp'.calls = lruOp.calls + 1

\* the stored key whose latest put or successful get is the oldest
OldestUsed(key) ==
  /\ key \in DOMAIN lru_cache
  /\ \A k \in DOMAIN lru_cache : lruOp.used[key] =< lruOp.used[k]

\* C32: with capacity >= 1 the LRU cache holds at most capacity keys after
\* every put and get; a put of a new key into a full cache evicts exactly
\* the key whose latest put or successful get is the oldest, and every other
\* key keeps its value.
C32_LruEviction ==
  [][(LruCalled /\ capacity >= 1)
       => /\ Cardinality(DOMAIN lru_cache') =< capacity
          /\ IF /\ lruOp'.op = "put"
                /\ lruOp'.key \notin DOMAIN lru_cache
                /\ Cardinality(DOMAIN lru_cache) = capacity
             THEN \E victim \in DOMAIN lru_cache :
                    /\ OldestUsed(victim)
                    /\ DOMAIN lru_cache'
                         = (DOMAIN lru_cache \ {victim}) \cup {lruOp'.key}
                    /\ lru_cache'[lruOp'.key] = lruOp'.value
                    /\ \A k \in DOMAIN lru_cache \ {victim} :
                         lru_cache'[k] = lru_cache[k]
             ELSE \A k \in DOMAIN lru_cache :
                    /\ k \in DOMAIN lru_cache'
                    /\ (lruOp'.op = "get" \/ k # lruOp'.key)
                         => lru_cache'[k] = lru_cache[k]]_vars

\* a was put, then b, then a was found, and the put of c into the full cache
\* of capacity 2 evicted b
C32_Witness ==
  /\ capacity = 2
  /\ lruOp.op = "put"
  /\ lruOp.key = "c"
  /\ lruOp.calls = 4
  /\ lruOp.used["a"] = 3
  /\ lruOp.used["b"] = 2
  /\ DOMAIN lru_cache = {"a", "c"}

-----------------------------------------------------------------------------
(* Properties of the document store *)

\* update_document_content has just been called for the uri
UpdateCalled(uri) ==
  /\ storeOp'.op = "update"
  /\ storeOp'.uri = uri
  /\ storeOp'.updates[uri] = storeOp.updates[uri] + 1

\* C33: the version of a stored document is the number of
\* update_document_content calls made for its uri since its latest
\* add_document: add_document stores version 0, each update on a stored
\* document adds exactly 1, and an update for a uri that is not stored returns
\* None and stores nothing.
C33_VersionCountsUpdates ==
  [][/\ \A uri \in DOMAIN documents' :
          documents'[uri].version = storeOp'.updates[uri]
     /\ \A uri \in Uris :
          /\ (storeOp'.op = "add" /\ storeOp'.uri = uri)
               => (uri \in DOMAIN documents' /\ documents'[uri].version = 0)
          /\ (UpdateCalled(uri) /\ uri \in DOMAIN documents)
               => /\ uri \in DOMAIN documents'
                  /\ documents'[uri].version = documents[uri].version + 1
                  /\ storeOp'.value = {documents'[uri]}
          /\ (UpdateCalled(uri) /\ uri \notin DOMAIN documents)
               => (storeOp'.value = {} /\ documents' = documents)]_vars

\* a document was updated twice since it was added, and the latest call was
\* an update for a uri that is not stored
C33_Witness ==
  /\ UriU \in DOMAIN documents
  /\ documents[UriU].version = 2
  /\ storeOp.op = "update"
  /\ storeOp.uri = UriW
  /\ storeOp.value = {}
  /\ UriW \notin DOMAIN documents

-----------------------------------------------------------------------------
(* Properties of the document events *)

\* did_change has just handled a change of the open document uri
ChangeHandled(uri) ==
  /\ syncOp'.op = "change"
  /\ syncOp'.uri = uri
  /\ uri \in DOMAIN documents
  /\ storeOp'.updates[uri] = storeOp.updates[uri] + 1

\* C31: after every change event for an open document UpsertFile has been
\* called for that file with the document's new text, so the symbols of the
\* file are those of the latest content; after a close event no symbol of
\* the file remains in the index.
C31_IndexFollowsDocument ==
  [][\A uri \in SyncUris :
       /\ ChangeHandled(uri)
            => /\ lastOp'.op = "upsert"
               /\ lastOp'.uri = uri
               /\ lastOp'.content = documents'[uri].content
               /\ StoredHash(Table', uri) = {HashContent(documents'[uri].content)}
               /\ GetSymbolsByUri(Table', uri)
                    = InsertCalls(uri, ExtractionOf(documents'[uri].content))
       /\ (syncOp'.op = "close" /\ syncOp'.uri = uri)
            => GetSymbolsByUri(Table', uri) = <<>>]_vars

\* C35: a change to one file supersedes only a pending analysis of that
\* file: the pending analysis of any other file stays scheduled.
C35_DebouncePerFile ==
  [][\A uri \in SyncUris : \A t \in sleeping :
       (ChangeHandled(uri) /\ t.uri # uri) => t \in sleeping']_vars

-----------------------------------------------------------------------------
(* Properties of the outline *)

\* C36: provide_document_symbols terminates and returns an outline for every
\* index content reached by extracting a text and upserting the result, texts
\* with two functions of one name, one after or inside the other, included:
\* a call on an indexed file ends by returning, never by raising.
C36_OutlineReturned ==
  (lastOp.op = "upsert" /\ outline.state # "idle") => outline.state = "returned"

-----------------------------------------------------------------------------
(* Properties of an update in progress *)

====
